---- MODULE Spec2Model ----
(***************************************************************************)
(* NOX.AI chat client: the message send / reply pipeline of NOXApp, the    *)
(* chat store of ChatManager, the execution monitor of N8NManager, the     *)
(* encrypted store of CryptoUtils and the session gate of AuthManager.     *)
(***************************************************************************)
EXTENDS Integers, Sequences, FiniteSets, TLC

\* ------------------------------------------------------------------ bounds
\* number of sendMessage calls that may run to completion before the input is closed
MaxSends == 1
\* number of threads the chat store may hold in one behaviour
MaxChats == 2
\* last instant (in seconds) of the clock of the execution monitor
MaxTime == 6
\* number of startExecutionMonitoring calls in one behaviour
MaxStarts == 2
\* longest time (in seconds) a status fetch stays unanswered
MaxLatency == 1
\* longest run of failed status fetches that is counted
MaxFailStreak == 2

\* ------------------------------------------------- program constants
\* period of the execution polling interval (setInterval(..., 1000)), seconds
PollPeriod == 1
\* grace window before polling state is cleared (setTimeout(..., 5000)), seconds
GraceWindow == 5

\* ------------------------------------------------- JSON values of a reply
\* a key that the object does not carry (JavaScript undefined)
UNDEF == "<undefined>"
\* a key that carries JSON null
NULLV == "<null>"

OutputVals == {UNDEF, "", " ", "out"}
ReplyVals == {UNDEF, "rep"}
MessageVals == {UNDEF, NULLV, "msg"}

\* the known fields of one JSON object
Fields == [output : OutputVals, reply : ReplyVals, message : MessageVals]
NoFields == [output |-> UNDEF, reply |-> UNDEF, message |-> UNDEF]

\* the value under the key data: absent, a JSON object, or a scalar
DataVals == [kind : {"absent", "scalar"}, f : {NoFields}] \cup [kind : {"object"}, f : Fields]
NoData == [kind |-> "absent", f |-> NoFields]

\* one JSON object of a webhook reply
Items == [f : Fields, data : DataVals]
NoItem == [f |-> NoFields, data |-> NoData]

\* JavaScript truthiness of a field value (undefined, null and '' are falsy)
Truthy(v) == v \notin {UNDEF, NULLV, ""}

\* a || b
Or(a, b) == IF Truthy(a) THEN a ELSE b

\* Array.prototype.join(',') over the non-empty parts
RECURSIVE JoinParts(_)
JoinParts(parts) ==
    IF parts = <<>> THEN ""
    ELSE IF Head(parts) = "" THEN JoinParts(Tail(parts))
    ELSE IF JoinParts(Tail(parts)) = "" THEN Head(parts)
    ELSE Head(parts) \o "," \o JoinParts(Tail(parts))

\* JSON.stringify of one member: keys holding undefined are omitted
StrField(k, v) ==
    IF v = UNDEF THEN ""
    ELSE IF v = NULLV THEN "\"" \o k \o "\":null"
    ELSE "\"" \o k \o "\":\"" \o v \o "\""

\* JSON.stringify of the value under data
StrData(d) ==
    IF d.kind = "absent" THEN ""
    ELSE IF d.kind = "scalar" THEN "\"data\":1"
    ELSE "\"data\":{" \o JoinParts(<<StrField("output", d.f.output), StrField("reply", d.f.reply),
                                     StrField("message", d.f.message)>>) \o "}"

\* JSON.stringify of a JSON object
Stringify(item) ==
    "{" \o JoinParts(<<StrField("output", item.f.output), StrField("reply", item.f.reply),
                       StrField("message", item.f.message), StrData(item.data)>>) \o "}"

\* String.prototype.trim on the strings of the model
Trim(s) == IF s = " " THEN "" ELSE s

\* ------------------------------------------------- webhook responses
ExecIds == 1 .. 2

\* the body of a 2xx webhook answer, as response.json() returns it:
\* [item], item, [], null or a scalar; executionId is a top-level member
Responses ==
    [shape : {"object"}, item : Items, executionId : {0} \cup ExecIds]
    \cup [shape : {"array"}, item : Items, executionId : {0}]
    \cup [shape : {"emptyArray", "null", "scalar"}, item : {NoItem}, executionId : {0}]
NoResponse == [shape |-> "none", item |-> NoItem, executionId |-> 0]

\* the bodies used where the whole pipeline runs: a usable reply, an empty
\* object, with and without an execution id, and the bodies without members
PlainResponses ==
    {r \in Responses : /\ r.item.data = NoData
                       /\ r.item.f.reply = UNDEF
                       /\ r.item.f.message = UNDEF
                       /\ r.item.f.output \in {UNDEF, "out"}
                       /\ r.executionId \in {0, 1}}

\* the text of a scalar body, String(response)
ScalarText == "plain"

\* firstItem?.data?.output and firstItem?.data?.message
DataMember(d, k) == IF d.kind = "object" THEN d.f[k] ELSE UNDEF

\* the Array.isArray(response) branch
ExtractArray(item) ==
    Or(item.f.output, Or(item.f.message, Or(item.f.reply,
       Or(DataMember(item.data, "output"), Or(DataMember(item.data, "message"), Stringify(item))))))

\* the typeof response === 'object' branch
ExtractObject(item) ==
    IF item.data.kind = "object"
    THEN Or(item.data.f.output, Or(item.data.f.reply, Or(item.data.f.message,
            Stringify([f |-> item.data.f, data |-> NoData]))))
    ELSE Or(item.f.output, Or(item.f.reply, Or(item.f.message, Stringify(item))))

\* replyText as sendMessage computes it; threw: the computation raised a
\* TypeError (property read on null, or .trim() on undefined)
ExtractReply(resp) ==
    CASE resp.shape = "array" -> [threw |-> FALSE, text |-> ExtractArray(resp.item)]
      [] resp.shape = "emptyArray" -> [threw |-> TRUE, text |-> UNDEF]
      [] resp.shape = "object" -> [threw |-> FALSE, text |-> ExtractObject(resp.item)]
      [] resp.shape = "null" -> [threw |-> TRUE, text |-> UNDEF]
      [] OTHER -> [threw |-> FALSE, text |-> ScalarText]

\* the strings of the model that cleanedReply.match(/^{.*"message":\s*null.*}$/) accepts
MessageNullStrings ==
    {Stringify(item) : item \in {it \in Items : it.f.message = NULLV
                                         \/ (it.data.kind = "object" /\ it.data.f.message = NULLV)}}
    \cup {Stringify([f |-> f, data |-> NoData]) : f \in {g \in Fields : g.message = NULLV}}

MatchesMessageNull(s) == s \in MessageNullStrings

\* the empty-reply test on replyText.trim()
IsEmptyReply(replyText) ==
    LET cleanedReply == Trim(replyText)
    IN \/ cleanedReply = ""
       \/ cleanedReply \in {"null", "undefined", "{}", "[]"}
       \/ MatchesMessageNull(cleanedReply)

EmptyReplyText == "I received an empty response from the workflow"

\* errors caught by sendMessage, by their message
Errors == {"Failed to fetch", "Webhook request failed: 500", "Webhook request failed: 404",
           "Webhook request failed: 401", "Webhook request failed: 418",
           "Webhook URL not configured", "TypeError", "Unexpected token", "FileReader error"}

\* NOXApp.getFriendlyErrorMessage
getFriendlyErrorMessage(error) ==
    CASE error = "Failed to fetch" -> "I'm having trouble connecting to the n8n workflow"
      [] error = "Webhook request failed: 500" -> "internal server error (HTTP 500)"
      [] error = "Webhook request failed: 404" -> "endpoint could not be found (HTTP 404)"
      [] error = "Webhook request failed: 401" -> "Authentication failed (HTTP 401/403)"
      [] error = "Webhook URL not configured" -> "The n8n webhook is not configured"
      [] error = "Webhook request failed: 418" -> "error response from the workflow (HTTP 418)"
      [] OTHER -> "I encountered an error: " \o error

\* ------------------------------------------------------------- state
VARIABLES
    chatInput,       \* NOXApp.chatInput.value
    files,           \* NOXApp.files, by their number
    isProcessing,    \* NOXApp.isProcessing
    send,            \* the invocations of NOXApp.sendMessage that passed the guards
    webhookInFlight, \* webhook requests issued and not yet answered
    recentQueries,   \* NOXApp.recentQueries
    config,          \* N8NManager.config: is webhookUrl / n8nUrl a non-empty string
    chats,           \* ChatManager.chats
    currentChatId,   \* ChatManager.currentChatId
    chatsCreated,    \* number of threads created so far (source of thread ids)
    now,             \* the clock, in seconds
    currentExecutionId,        \* N8NManager.currentExecutionId, 0 for null
    executionPollingInterval,  \* N8NManager.executionPollingInterval, 0 for null
    liveIntervals,   \* the intervals set and not cleared, with their next expiry
    intervalsCreated,\* number of setInterval calls so far (source of handles)
    graceTimers,     \* the pending setTimeout(stopExecutionMonitoring, 5000) timers
    inFlight,        \* status fetches issued and not yet answered
    execution,       \* the execution records held by the n8n server
    panel,           \* what updateExecutionDisplay rendered last
    list,            \* what addExecutionGroup rendered last
    monitorLog,      \* what the status fetches have done so far
    localStorage,    \* window.localStorage: the string held under each key
    encKey,          \* sessionStorage 'nox_enc_key', 0 when absent
    pendingWrites,   \* CryptoUtils.setItem calls that have not written yet
    got,             \* what the last CryptoUtils.getItem call returned, and for which key
    migration,       \* the run of CryptoUtils.migrateAllData
    chatReady,       \* ChatManager.ready
    chatLoad,        \* what the loadChats call of the constructor is decrypting
    chatsArray,      \* which array object ChatManager.chats is: 0 the constructor's, 1 the loaded one
    detachedChats,   \* the constructor's array after loadChats replaced it
    chatCalls,       \* number of ChatManager calls made that change the thread list
    session,         \* sessionStorage 'nox_session': the session record, if any
    dateNow,         \* Date.now(), in milliseconds since the page was opened
    advances,        \* number of times the clock has advanced
    logins,          \* AuthManager.login calls that have not returned yet
    authLog,         \* what the last login and isAuthenticated calls returned
    streams,         \* the displayMessageWithStreaming calls, in call order
    currentStreamController,  \* NOXApp.currentStreamController: the call that owns it, 0 for null
    currentStreamingSpeed,    \* NOXApp.currentStreamingSpeed
    graphPollingInterval,     \* NOXApp.graphPollingInterval: the handle held, 0 for null
    graphAutoRefreshEnabled,  \* NOXApp.graphAutoRefreshEnabled
    liveGraphIntervals,       \* the handles of setInterval(graph refresh) not cleared
    graphIntervalsCreated,    \* number of graph refresh intervals created
    cypherQuery,              \* the query box of the graph window holds a query
    graph,                    \* the rendered graph of neo4jManager
    selectedWorkflowId,       \* NOXApp.selectedWorkflowId: 0 for none
    executionsRefreshInterval,  \* NOXApp.executionsRefreshInterval: the handle held, 0 for null
    liveRefreshIntervals,     \* the handles of setInterval(loadExecutions) not cleared
    refreshIntervalsCreated,  \* number of executions refresh intervals created
    workflowChanges,
    querySaves           \* handleWorkflowChange calls awaiting loadExecutions

sendVars == <<chatInput, files, isProcessing, send, webhookInFlight, recentQueries>>
chatVars == <<chats, currentChatId, chatsCreated>>
monitorVars == <<now, currentExecutionId, executionPollingInterval, liveIntervals, intervalsCreated,
                 graceTimers, inFlight, monitorLog>>
serverVars == <<execution>>
renderVars == <<panel, list>>
storageVars == <<localStorage, encKey, pendingWrites, got, migration>>
chatLoadVars == <<chatReady, chatLoad, chatsArray, detachedChats, chatCalls>>
authVars == <<session, dateNow, advances, logins, authLog>>
streamVars == <<streams, currentStreamController, currentStreamingSpeed>>
graphPollVars == <<graphPollingInterval, graphAutoRefreshEnabled, liveGraphIntervals,
                   graphIntervalsCreated, cypherQuery>>
workflowVars == <<selectedWorkflowId, executionsRefreshInterval, liveRefreshIntervals,
                  refreshIntervalsCreated, workflowChanges>>
panelVars == <<graphPollVars, graph, workflowVars, querySaves>>
sessionVars == <<storageVars, chatLoadVars, authVars, streamVars>>
vars == <<sendVars, config, chatVars, monitorVars, serverVars, panelVars, renderVars, sessionVars>>

Inputs == {"", " ", "Hello"}
Configs == [webhookUrl : BOOLEAN, n8nUrl : BOOLEAN]

\* an invocation slot that no sendMessage call has taken yet
NoSend == [pc |-> "unused", files |-> 0, path |-> "none", replyText |-> "", content |-> "",
           response |-> NoResponse]

\* the invocation slots; one more than MaxSends, since a call may be made while
\* another is still running
Slots == 1 .. (MaxSends + 1)

\* ------------------------------------------------------------- ChatManager
\* the thread title derived from the first user message
TitleOf(content) ==
    IF Len(content) > 50 THEN SubSeq(content, 1, 50) \o "..." ELSE content

\* ChatManager.createNewChat: the thread list with a fresh thread in front
NewChat(id) == [id |-> id, title |-> "New Chat", messages |-> <<>>]

\* ChatManager.addMessage on the thread list cs with active thread cur
AddMessage(cs, cur, message) ==
    [i \in 1 .. Len(cs) |->
        IF cs[i].id = cur /\ \A j \in 1 .. (i - 1) : cs[j].id # cur
        THEN [cs[i] EXCEPT !.messages = Append(@, message),
                           !.title = IF Len(cs[i].messages) = 0 /\ message.role = "user"
                                     THEN TitleOf(message.content) ELSE @]
        ELSE cs[i]]

\* the messages of every thread, in thread order
RECURSIVE AllMessages(_)
AllMessages(cs) == IF cs = <<>> THEN <<>> ELSE Head(cs).messages \o AllMessages(Tail(cs))

CountRole(cs, role) == Cardinality({i \in 1 .. Len(AllMessages(cs)) : AllMessages(cs)[i].role = role})

\* ------------------------------------------------------------- recent queries
\* Array.prototype.filter(q => q !== query)
RECURSIVE Without(_, _)
Without(qs, query) ==
    IF qs = <<>> THEN <<>>
    ELSE IF Head(qs) = query THEN Without(Tail(qs), query)
    ELSE <<Head(qs)>> \o Without(Tail(qs), query)

\* a save that does not remove the earlier entry of the query
SaveRecentQueryKeepingOld(qs, query) ==
    IF query = "" \/ Trim(query) = "" THEN qs
    ELSE SubSeq(<<query>> \o qs, 1, IF Len(qs) + 1 > 20 THEN 20 ELSE Len(qs) + 1)

\* NOXApp.saveRecentQuery
SaveRecentQuery(qs, query) ==
    IF query = "" \/ Trim(query) = "" THEN qs
    ELSE SubSeq(<<query>> \o Without(qs, query), 1,
                IF Len(Without(qs, query)) + 1 > 20 THEN 20 ELSE Len(Without(qs, query)) + 1)

\* ------------------------------------------------------------- execution records
Nodes == {"A", "B"}
\* number of run attempts recorded for one node
MaxRuns == 2

\* a run attempt, by whether it carries an error object
Runs == UNION {[1 .. n -> BOOLEAN] : n \in 0 .. MaxRuns}

\* an execution record of the status endpoint; stoppedAt by its presence
ExecRecords == [finished : BOOLEAN, stoppedAt : BOOLEAN, runData : [Nodes -> Runs]]

\* the record of an execution that has just begun
FreshRecord == [finished |-> FALSE, stoppedAt |-> FALSE,
                runData |-> [n \in Nodes |-> IF n = "A" THEN <<FALSE>> ELSE <<>>]]

\* the node status of updateExecutionDisplay (execution panel)
PanelStatus(rec, lastRunError) ==
    IF ~rec.finished /\ ~rec.stoppedAt THEN "running"
    ELSE IF lastRunError THEN "error"
    ELSE "completed"

\* the node status of addExecutionGroup (executions list)
ListStatus(rec, lastRunError) ==
    IF lastRunError THEN "error"
    ELSE IF rec.finished THEN "completed"
    ELSE "running"

\* NOXApp.updateExecutionDisplay: the status shown per node, "absent" for a
\* node without run attempts
UpdateExecutionDisplay(rec) ==
    [execution |-> rec,
     nodes |-> [n \in Nodes |->
        IF Len(rec.runData[n]) = 0 THEN "absent"
        ELSE PanelStatus(rec, rec.runData[n][Len(rec.runData[n])])]]

\* NOXApp.addExecutionGroup: the status shown per node
AddExecutionGroup(rec) ==
    [execution |-> rec,
     nodes |-> [n \in Nodes |->
        IF Len(rec.runData[n]) = 0 THEN "absent"
        ELSE ListStatus(rec, rec.runData[n][Len(rec.runData[n])])]]

NothingRendered == [execution |-> FreshRecord, nodes |-> [n \in Nodes |-> "absent"]]

\* ------------------------------------------------------------- N8NManager
\* what the status fetches have done so far:
\*   polls        fetches issued since the last startExecutionMonitoring
\*   graceFrom    when the first finished or stopped record of the monitored
\*                execution was fetched since then, -1 if none was
\*   corsSeen     whether the cross-origin policy rejected a fetch of the
\*                monitored execution since then
\*   finishedSeen the execution ids a fetched record reported finished or stopped
\*   failStreak   the fetches of the monitored execution that failed for another
\*                reason since then and since the last answered fetch, up to
\*                MaxFailStreak
NoMonitorLog == [polls |-> 0, graceFrom |-> -1, finishedSeen |-> {}, corsSeen |-> FALSE, failStreak |-> 0]

\* the synchronous part of fetchExecutionDetails, with currentExecutionId = id:
\* the request it issues, if any
IssuedFetches(id) ==
    IF id = 0 \/ ~config.n8nUrl THEN {}
    ELSE {[exec |-> id, issued |-> now]}

\* a start that does not clear the interval of the previous execution
startExecutionMonitoringLeaking(executionId) ==
    /\ currentExecutionId' = executionId
    /\ liveIntervals' = liveIntervals \cup {[handle |-> intervalsCreated + 1, next |-> now + PollPeriod]}
    /\ inFlight' = inFlight \cup IssuedFetches(executionId)
    /\ executionPollingInterval' = intervalsCreated + 1
    /\ intervalsCreated' = intervalsCreated + 1
    /\ monitorLog' = [monitorLog EXCEPT !.graceFrom = -1,
                                        !.corsSeen = FALSE,
                                        !.failStreak = 0,
                                        !.polls = Cardinality(IssuedFetches(executionId))]
    /\ UNCHANGED <<now, graceTimers>>

\* N8NManager.startExecutionMonitoring(executionId)
startExecutionMonitoring(executionId) ==
    /\ currentExecutionId' = executionId
    /\ liveIntervals' = {t \in liveIntervals : t.handle # executionPollingInterval}
                        \cup {[handle |-> intervalsCreated + 1, next |-> now + PollPeriod]}
    /\ inFlight' = inFlight \cup IssuedFetches(executionId)
    /\ executionPollingInterval' = intervalsCreated + 1
    /\ intervalsCreated' = intervalsCreated + 1
    /\ monitorLog' = [monitorLog EXCEPT !.graceFrom = -1,
                                        !.corsSeen = FALSE,
                                        !.failStreak = 0,
                                        !.polls = Cardinality(IssuedFetches(executionId))]
    /\ UNCHANGED <<now, graceTimers>>

\* N8NManager.stopExecutionMonitoring
stopExecutionMonitoring ==
    /\ liveIntervals' = {t \in liveIntervals : t.handle # executionPollingInterval}
    /\ executionPollingInterval' = 0
    /\ currentExecutionId' = 0

\* ------------------------------------------------------------- session gate
\* AuthManager.SESSION_TIMEOUT, milliseconds (24 hours)
SESSION_TIMEOUT == 86400000
\* the delay of a failed login (setTimeout(resolve, 500)), milliseconds
LoginDelay == 500

\* sessionStorage holds no session record
NoSession == [present |-> FALSE, wellFormed |-> FALSE, username |-> "", loginTime |-> 0, expiresAt |-> 0]
\* sessionStorage holds text under the session key that JSON.parse rejects
GarbledSession == [NoSession EXCEPT !.present = TRUE]

\* AuthManager.createSession(username) at time t: the record it stores
CreateSession(username, t) ==
    [present |-> TRUE, wellFormed |-> TRUE, username |-> username, loginTime |-> t,
     expiresAt |-> t + SESSION_TIMEOUT]

\* no login or isAuthenticated call has returned yet; waited is the time the
\* last login call took
NoAuthLog == [login |-> "none", username |-> "", waited |-> 0, authenticated |-> "none"]

\* ------------------------------------------------------------- storage
\* number of CryptoUtils.setItem calls that may be waiting to write at once
MaxPending == 1
\* number of migrateAllData runs in one behaviour
MaxMigrations == 2

\* the encryption keys: the key that sealed what an earlier page load stored
\* is the first; the key of this session is that one or a new one
SessionKeys == {1, 2}
\* the keys of window.localStorage the application reads and writes
StorageKeys ==
    {"nox-chats", "nox-n8n-config", "nox-neo4j-config", "nox-ai-recent-queries", "streaming-speed"}
\* CryptoUtils.migrateAllData: sensitiveKeys, in the order of the loop
sensitiveKeys == <<"nox-chats", "nox-n8n-config", "nox-neo4j-config">>

\* JSON values: a thread list, a configuration object, a list of recent
\* queries, a value that is not an object (true), and null
ChatsJson(cs) == [chats |-> cs]
ConfigJson(c) == [config |-> c]
QueriesJson(qs) == [queries |-> qs]
ScalarJson == [scalar |-> "true"]
\* an object whose JSON text is longer than the argument limit of the engine
LargeJson == [large |-> TRUE]
NullJson == [null |-> TRUE]

\* parsed && typeof parsed === 'object'
IsJsonObject(v) == DOMAIN v \cap {"chats", "config", "queries", "large"} # {}

\* the strings localStorage holds: none (getItem gives null), the text
\* JSON.stringify(v), the base64 text of iv || AES-GCM(key, JSON.stringify(v))
Missing == [kind |-> "missing"]
\* a string stored as it is
RawText(v) == [kind |-> "raw", value |-> v]
PlainText(v) == [kind |-> "json", value |-> v]
CipherText(key, v) == [kind |-> "cipher", key |-> key, value |-> v]

\* CryptoUtils.encrypt of the serialized value v, the key read by getKey being
\* key: without a key getKey throws, and on a value whose ciphertext has more
\* bytes than a call takes arguments String.fromCharCode(...result) throws;
\* the catch returns JSON.stringify(data)
Encrypt(key, v) ==
    IF key = 0 \/ v = LargeJson THEN PlainText(v) ELSE CipherText(key, v)

\* a decryption that does not authenticate the ciphertext against the key
DecryptAnyKey(text, key) ==
    IF text.kind = "missing" THEN NullJson ELSE text.value

\* CryptoUtils.decrypt of the stored text, the key read by getKey being key:
\* AES-GCM opens only what the same key sealed; on any failure the text is
\* parsed as JSON, and null is returned when that fails too
Decrypt(text, key) ==
    IF text.kind = "cipher" /\ key # 0 /\ text.key = key THEN text.value
    ELSE IF text.kind = "json" THEN text.value
    ELSE NullJson

\* CryptoUtils.getItem(item) on the storage store
GetItem(store, item, key) ==
    IF store[item].kind = "missing" THEN NullJson ELSE Decrypt(store[item], key)

\* no getItem call has returned yet
NothingGot == [item |-> "", value |-> NullJson]

\* migrateAllData is not running
NoMigration ==
    [pc |-> "idle", index |-> 0, migratedCount |-> 0, runs |-> 0, returned |-> -1,
     before |-> [k \in StorageKeys |-> Missing]]

\* a CryptoUtils.setItem(item, value) call up to its first await: getKey has
\* read the key; array names the live array it will serialize, -1 for a value
\* of its own
SetItemCall(item, by, array, v) ==
    [item |-> item, by |-> by, phase |-> "importKey", key |-> encKey, array |-> array, value |-> v]

\* ChatManager.saveChats, not awaited by its callers: the setItem calls waiting
\* to write after it
SaveChats(pending, array) ==
    pending \cup {SetItemCall("nox-chats", "chat", array, NullJson)}

\* ------------------------------------------------------------- initial state
\* no graph is rendered
NoGraph ==
    [network |-> FALSE, nodes |-> <<>>, edges |-> <<>>, originalNodeIds |-> {},
     expanded |-> {}]

\* the side panels as the constructor leaves them: no workflow selected, no
\* interval set, the graph window closed
InitPanel ==
    /\ graphPollingInterval = 0
    /\ graphAutoRefreshEnabled = FALSE
    /\ liveGraphIntervals = {}
    /\ graphIntervalsCreated = 0
    /\ cypherQuery = ""
    /\ graph = NoGraph
    /\ selectedWorkflowId = 0
    /\ executionsRefreshInterval = 0
    /\ liveRefreshIntervals = {}
    /\ refreshIntervalsCreated = 0
    /\ workflowChanges = 0
    /\ querySaves = [fresh |-> 0, again |-> 0, last |-> ""]

\* the page has settled: the chat store is initialized, nothing waits to be
\* written, and storage holds what the earlier saves wrote
InitSettled ==
    /\ encKey = 1
    /\ localStorage = [k \in StorageKeys |->
            IF k = "nox-n8n-config" THEN PlainText(ConfigJson(config))
            ELSE IF k = "nox-chats" THEN CipherText(1, ChatsJson(chats))
            ELSE Missing]
    /\ pendingWrites = {}
    /\ got = NothingGot
    /\ migration = NoMigration
    /\ chatReady = TRUE
    /\ chatLoad = NullJson
    /\ chatsArray = 0
    /\ detachedChats = <<>>
    /\ chatCalls = 0
    /\ session = CreateSession("admin", 0)
    /\ dateNow = 0
    /\ advances = 0
    /\ logins = {}
    /\ authLog = NoAuthLog
    /\ streams = <<>>
    /\ currentStreamController = 0
    /\ currentStreamingSpeed = "normal"

InitClient ==
    /\ chatInput = ""
    /\ files = 0
    /\ isProcessing = FALSE
    /\ send = [i \in Slots |-> NoSend]
    /\ webhookInFlight = 0
    /\ recentQueries = <<>>
    /\ config \in Configs
    /\ chats = <<NewChat(1)>>
    /\ currentChatId = 1
    /\ chatsCreated = 1
    /\ now = 0
    /\ currentExecutionId = 0
    /\ executionPollingInterval = 0
    /\ liveIntervals = {}
    /\ intervalsCreated = 0
    /\ graceTimers = {}
    /\ inFlight = {}
    /\ panel = NothingRendered
    /\ list = NothingRendered
    /\ monitorLog = NoMonitorLog
    /\ InitSettled
    /\ InitPanel

\* the state after construction; no execution has made progress yet
Init ==
    /\ InitClient
    /\ execution = [e \in ExecIds |-> FreshRecord]

\* ------------------------------------------------------------- user input
\* the user edits the text of the input box
TypeInput(v) ==
    /\ v # chatInput
    /\ chatInput' = v
    /\ UNCHANGED <<files, isProcessing, send, webhookInFlight, recentQueries,
                   config, chatVars, monitorVars, serverVars, panelVars, sessionVars, renderVars>>

\* NOXApp.handleFileSelect with a valid file: it replaces the attached files
AttachFile ==
    /\ files = 0
    /\ files' = 1
    /\ UNCHANGED <<chatInput, isProcessing, send, webhookInFlight, recentQueries,
                   config, chatVars, monitorVars, serverVars, panelVars, sessionVars, renderVars>>

\* N8NManager.saveConfig
saveConfig(c) ==
    /\ c # config
    /\ config' = c
    /\ localStorage' = [localStorage EXCEPT !["nox-n8n-config"] = PlainText(ConfigJson(c))]
    /\ UNCHANGED <<encKey, pendingWrites, got, migration, chatLoadVars, authVars, streamVars>>
    /\ UNCHANGED <<sendVars, chatVars, monitorVars, serverVars, panelVars, renderVars>>

\* NOXApp.resetChat
resetChat ==
    /\ Len(chats) < MaxChats
    /\ chats' = <<NewChat(chatsCreated + 1)>> \o chats
    /\ currentChatId' = chatsCreated + 1
    /\ chatsCreated' = chatsCreated + 1
    /\ files' = 0
    /\ chatInput' = ""
    /\ UNCHANGED <<isProcessing, send, webhookInFlight, recentQueries,
                   config, monitorVars, serverVars, panelVars, sessionVars, renderVars>>

\* ------------------------------------------------------------- NOXApp.sendMessage
\* the slot the next accepted call takes
NextSlot == Cardinality({i \in Slots : send[i].pc # "unused"}) + 1

\* the invocations that ran to completion
Completed == {i \in Slots : send[i].pc = "done"}

\* a guard that never sees a send outstanding
NeverBusy == FALSE

\* the guard of sendMessage on a busy pipeline
Busy == isProcessing

\* sendMessage returns at one of its two guards
SendMessageReturnsEarly ==
    /\ \/ Trim(chatInput) = "" /\ files = 0
       \/ Busy
    /\ UNCHANGED vars

\* sendMessage passes the guards and runs up to await prepareFilesForUpload
SendMessageStarts ==
    LET message == Trim(chatInput) IN
    /\ ~(message = "" /\ files = 0)
    /\ ~Busy
    /\ Cardinality(Completed) < MaxSends
    /\ NextSlot \in Slots
    /\ chats' = AddMessage(chats, currentChatId, [role |-> "user", content |-> message])
    /\ recentQueries' = IF message # "" THEN SaveRecentQuery(recentQueries, message) ELSE recentQueries
    /\ chatInput' = ""
    /\ files' = 0
    /\ isProcessing' = TRUE
    /\ send' = [send EXCEPT ![NextSlot] = [NoSend EXCEPT !.pc = "prepare", !.files = files]]
    /\ localStorage' = IF message # "" /\ Trim(message) # ""
                       THEN [localStorage EXCEPT !["nox-ai-recent-queries"] =
                                PlainText(QueriesJson(recentQueries'))]
                       ELSE localStorage
    /\ UNCHANGED <<encKey, pendingWrites, got, migration, chatLoadVars, authVars, streamVars>>
    /\ UNCHANGED <<webhookInFlight, config, currentChatId, chatsCreated,
                   monitorVars, serverVars, panelVars, renderVars>>

\* the catch block up to await displayMessageWithStreaming(errorMessage)
Caught(i, error) ==
    send' = [send EXCEPT ![i] = [@ EXCEPT !.pc = "stream", !.path = "error",
                                          !.content = getFriendlyErrorMessage(error)]]

\* prepareFilesForUpload settles; on success N8NManager.sendMessage runs up to await fetch
PrepareFilesSettles(i, ok) ==
    /\ send[i].pc = "prepare"
    /\ ok \/ send[i].files > 0
    /\ IF ~ok THEN Caught(i, "FileReader error") /\ UNCHANGED webhookInFlight
       ELSE IF ~config.webhookUrl THEN Caught(i, "Webhook URL not configured") /\ UNCHANGED webhookInFlight
       ELSE /\ send' = [send EXCEPT ![i] = [@ EXCEPT !.pc = "webhook"]]
            /\ webhookInFlight' = webhookInFlight + 1
    /\ UNCHANGED <<chatInput, files, isProcessing, recentQueries,
                   config, chatVars, monitorVars, serverVars, panelVars, sessionVars, renderVars>>

\* the webhook request fails: fetch rejects, the status is not 2xx, or the body is not JSON
WebhookFails(i, error) ==
    /\ send[i].pc = "webhook"
    /\ webhookInFlight > 0
    /\ webhookInFlight' = webhookInFlight - 1
    /\ Caught(i, error)
    /\ UNCHANGED <<chatInput, files, isProcessing, recentQueries,
                   config, chatVars, monitorVars, serverVars, panelVars, sessionVars, renderVars>>

\* the branch sendMessage takes on an extracted reply
AfterExtraction(i, resp) ==
    LET r == ExtractReply(resp) IN
    IF r.threw THEN Caught(i, "TypeError")
    ELSE IF IsEmptyReply(r.text)
    THEN send' = [send EXCEPT ![i] = [@ EXCEPT !.pc = "stream", !.path = "empty",
                                               !.replyText = r.text,
                                               !.content = EmptyReplyText, !.response = resp]]
    ELSE send' = [send EXCEPT ![i] = [@ EXCEPT !.pc = "stream", !.path = "reply",
                                               !.replyText = r.text,
                                               !.content = r.text, !.response = resp]]

\* the webhook answers 2xx with a JSON body: the rest of N8NManager.sendMessage,
\* then reply extraction up to await displayMessageWithStreaming
WebhookAnswers(i, resp) ==
    /\ send[i].pc = "webhook"
    /\ webhookInFlight > 0
    /\ webhookInFlight' = webhookInFlight - 1
    /\ IF resp.shape = "null" THEN Caught(i, "TypeError") /\ UNCHANGED monitorVars
       ELSE /\ AfterExtraction(i, resp)
            /\ IF resp.executionId # 0 THEN startExecutionMonitoring(resp.executionId)
               ELSE UNCHANGED monitorVars
    /\ UNCHANGED <<chatInput, files, isProcessing, recentQueries,
                   config, chatVars, serverVars, panelVars, sessionVars, renderVars>>

\* a send that stores the assistant message of the reply path only
StreamingEndsOnlyReplies(i) ==
    /\ send[i].pc = "stream"
    /\ chats' = IF send[i].path = "reply"
                THEN AddMessage(chats, currentChatId, [role |-> "assistant", content |-> send[i].content])
                ELSE chats
    /\ isProcessing' = FALSE
    /\ send' = [send EXCEPT ![i] = [@ EXCEPT !.pc = "done", !.replyText = "", !.response = NoResponse]]
    /\ UNCHANGED <<chatInput, files, webhookInFlight, recentQueries,
                   config, currentChatId, chatsCreated, monitorVars, serverVars, panelVars, sessionVars, renderVars>>

\* displayMessageWithStreaming resolves: the message is stored, then the finally block
StreamingEnds(i) ==
    /\ send[i].pc = "stream"
    /\ chats' = AddMessage(chats, currentChatId, [role |-> "assistant", content |-> send[i].content])
    /\ isProcessing' = FALSE
    /\ send' = [send EXCEPT ![i] = [@ EXCEPT !.pc = "done", !.replyText = "", !.response = NoResponse]]
    /\ UNCHANGED <<chatInput, files, webhookInFlight, recentQueries,
                   config, currentChatId, chatsCreated, monitorVars, serverVars, panelVars, sessionVars, renderVars>>

WebhookErrors == {"Failed to fetch", "Webhook request failed: 500"}

Next ==
    \/ \E v \in Inputs : TypeInput(v)
    \/ AttachFile
    \/ \E c \in Configs : saveConfig(c)
    \/ resetChat
    \/ SendMessageReturnsEarly
    \/ SendMessageStarts
    \/ \E i \in Slots, ok \in BOOLEAN : PrepareFilesSettles(i, ok)
    \/ \E i \in Slots, error \in WebhookErrors : WebhookFails(i, error)
    \/ \E i \in Slots, resp \in PlainResponses : WebhookAnswers(i, resp)
    \/ \E i \in Slots : StreamingEnds(i)

Spec == Init /\ [][Next]_vars

\* reply extraction over every response body of the model
NextExtract ==
    \/ TypeInput("Hello")
    \/ SendMessageStarts
    \/ PrepareFilesSettles(1, TRUE)
    \/ \E resp \in Responses : WebhookAnswers(1, resp)

SpecExtract == Init /\ [][NextExtract]_vars

\* ------------------------------------------------------------- execution monitor
\* a webhook answer carries an execution id: N8NManager.sendMessage starts monitoring
MonitoringRequested(id) ==
    /\ intervalsCreated < MaxStarts
    /\ startExecutionMonitoring(id)
    /\ UNCHANGED <<sendVars, config, chatVars, serverVars, panelVars, sessionVars, renderVars>>

\* the polling interval expires: the synchronous part of fetchExecutionDetails
IntervalFires(t) ==
    /\ t \in liveIntervals
    /\ t.next = now
    /\ liveIntervals' = (liveIntervals \ {t}) \cup {[t EXCEPT !.next = now + PollPeriod]}
    /\ inFlight' = inFlight \cup IssuedFetches(currentExecutionId)
    /\ monitorLog' = [monitorLog EXCEPT !.polls = @ + Cardinality(IssuedFetches(currentExecutionId))]
    /\ UNCHANGED <<now, currentExecutionId, executionPollingInterval, intervalsCreated, graceTimers>>
    /\ UNCHANGED <<sendVars, config, chatVars, serverVars, panelVars, sessionVars, renderVars>>

\* a grace timer expires: stopExecutionMonitoring
GraceTimerFires(g) ==
    /\ g \in graceTimers
    /\ g = now
    /\ graceTimers' = graceTimers \ {g}
    /\ stopExecutionMonitoring
    /\ UNCHANGED <<now, intervalsCreated, inFlight, monitorLog>>
    /\ UNCHANGED <<sendVars, config, chatVars, serverVars, panelVars, sessionVars, renderVars>>

\* a failure handler that gives up polling on any failed status fetch
FetchFailureStops(failure) ==
    /\ stopExecutionMonitoring
    /\ UNCHANGED graceTimers

\* what fetchExecutionDetails does to the polling state when a status fetch
\* fails: nothing, it logs the failure
FetchFailureHandled(failure) ==
    UNCHANGED <<currentExecutionId, executionPollingInterval, liveIntervals, graceTimers>>

\* a status fetch fails: non-2xx status ("status"), rejected fetch ("network"),
\* fetch rejected by the cross-origin policy ("cors")
FetchFails(f, failure) ==
    /\ f \in inFlight
    /\ inFlight' = inFlight \ {f}
    /\ FetchFailureHandled(failure)
    /\ monitorLog' = [monitorLog EXCEPT
            !.failStreak = IF failure # "cors" /\ f.exec = currentExecutionId /\ @ < MaxFailStreak
                           THEN @ + 1 ELSE @,
            !.corsSeen = @ \/ (failure = "cors" /\ f.exec = currentExecutionId)]
    /\ UNCHANGED <<now, intervalsCreated>>
    /\ UNCHANGED <<sendVars, config, chatVars, serverVars, panelVars, sessionVars, renderVars>>

\* the timers a fetched record adds: the grace timer of a finished or stopped
\* execution, by its expiry (an expiry past MaxTime is never reached)
GraceTimersFor(rec) ==
    IF (rec.finished \/ rec.stoppedAt) /\ now + GraceWindow <= MaxTime
    THEN {now + GraceWindow}
    ELSE {}

\* the records the status endpoint can answer for execution e: running, finished
\* or stopped, and never running again once it answered finished or stopped
AnswersFor(e) ==
    {rec \in {FreshRecord, [FreshRecord EXCEPT !.finished = TRUE, !.stoppedAt = TRUE],
              [FreshRecord EXCEPT !.stoppedAt = TRUE]} :
        e \in monitorLog.finishedSeen => (rec.finished \/ rec.stoppedAt)}

\* a status fetch is answered 2xx with record rec: update callback, then the finished test
FetchAnswered(f, rec) ==
    /\ f \in inFlight
    /\ inFlight' = inFlight \ {f}
    /\ panel' = UpdateExecutionDisplay(rec)
    /\ graceTimers' = graceTimers \cup GraceTimersFor(rec)
    /\ monitorLog' = [monitorLog EXCEPT
            !.failStreak = 0,
            !.finishedSeen = IF rec.finished \/ rec.stoppedAt THEN @ \cup {f.exec} ELSE @,
            !.graceFrom = IF (rec.finished \/ rec.stoppedAt) /\ f.exec = currentExecutionId /\ @ = -1
                          THEN now ELSE @]
    /\ UNCHANGED <<now, currentExecutionId, executionPollingInterval, liveIntervals, intervalsCreated>>
    /\ UNCHANGED <<sendVars, config, chatVars, serverVars, panelVars, sessionVars, list>>

\* one second passes; timers that are due expire first, and no status fetch
\* stays unanswered longer than MaxLatency
Advance ==
    /\ now < MaxTime
    /\ \A t \in liveIntervals : t.next > now
    /\ \A g \in graceTimers : g > now
    /\ \A f \in inFlight : now - f.issued < MaxLatency
    /\ now' = now + 1
    /\ UNCHANGED <<currentExecutionId, executionPollingInterval, liveIntervals, intervalsCreated,
                   graceTimers, inFlight, monitorLog>>
    /\ UNCHANGED <<sendVars, config, chatVars, serverVars, panelVars, sessionVars, renderVars>>

FetchFailures == {"status", "network", "cors"}

NextMonitor ==
    \/ \E id \in ExecIds : MonitoringRequested(id)
    \/ \E t \in liveIntervals : IntervalFires(t)
    \/ \E g \in graceTimers : GraceTimerFires(g)
    \/ \E f \in inFlight, failure \in FetchFailures : FetchFails(f, failure)
    \/ \E f \in inFlight : \E rec \in AnswersFor(f.exec) : FetchAnswered(f, rec)
    \/ Advance

\* the monitor is studied with the webhook and the status endpoint configured
InitMonitor == Init /\ config.n8nUrl /\ config.webhookUrl

SpecMonitor == InitMonitor /\ [][NextMonitor]_vars

\* ------------------------------------------------------------- execution display
\* the update callback registered by setupN8NMonitoring runs on the record of e
ExecutionDisplayed(e) ==
    /\ panel' = UpdateExecutionDisplay(execution[e])
    /\ UNCHANGED <<sendVars, config, chatVars, monitorVars, serverVars, panelVars, sessionVars, list>>

\* updateExecutionsList renders the group of execution e
ExecutionListed(e) ==
    /\ list' = AddExecutionGroup(execution[e])
    /\ UNCHANGED <<sendVars, config, chatVars, monitorVars, serverVars, panelVars, sessionVars, panel>>

NextRender ==
    \/ \E e \in ExecIds : ExecutionDisplayed(e)
    \/ \E e \in ExecIds : ExecutionListed(e)

\* the server may hold any record for execution 1
InitRender ==
    /\ InitClient
    /\ config.n8nUrl /\ config.webhookUrl
    /\ \E rec \in ExecRecords : execution = [e \in ExecIds |-> IF e = 1 THEN rec ELSE FreshRecord]

SpecRender == InitRender /\ [][NextRender]_vars

\* ------------------------------------------------------------- chat store
\* number of calls that change the thread list in one behaviour
MaxCalls == 3

\* a message of 51 characters, one more than the title keeps
LongText == "This message is one character longer than the cap.."
\* the messages addMessage is called with
ChatMessages == [role : {"user"}, content : {"Hello", LongText}]
                \cup [role : {"assistant"}, content : {"out"}]

\* a thread an earlier page load stored
OldThread == [id |-> -1, title |-> "Hello", messages |-> <<[role |-> "user", content |-> "Hello"]>>]
\* the thread lists an earlier page load may have stored
StoredChats == {<<>>, <<OldThread>>}
\* the thread ids a caller may pass
ThreadIds == {-1} \cup (1 .. (MaxCalls + 1))

\* Array.prototype.findIndex(c => c.id === chatId), 0 when there is none
FindIndex(cs, chatId) ==
    IF \E i \in 1 .. Len(cs) : cs[i].id = chatId
    THEN CHOOSE i \in 1 .. Len(cs) : cs[i].id = chatId /\ \A j \in 1 .. (i - 1) : cs[j].id # chatId
    ELSE 0

\* Array.prototype.splice(index, 1)
Splice(cs, index) == SubSeq(cs, 1, index - 1) \o SubSeq(cs, index + 1, Len(cs))

\* a call that changes the thread list is made
ChatCall ==
    /\ chatCalls < MaxCalls
    /\ chatCalls' = chatCalls + 1

\* ChatManager.initialize resumes after await loadChats: the loaded list, if
\* any, replaces the array, init picks or creates the active thread
ChatManagerLoads ==
    /\ ~chatReady
    /\ LET loaded == "chats" \in DOMAIN chatLoad
           cs == IF loaded THEN chatLoad.chats ELSE chats
       IN /\ chatsArray' = IF loaded THEN 1 ELSE chatsArray
          /\ detachedChats' = IF loaded THEN chats ELSE detachedChats
          /\ IF Len(cs) = 0
             THEN /\ chats' = <<NewChat(chatsCreated + 1)>> \o cs
                  /\ currentChatId' = chatsCreated + 1
                  /\ chatsCreated' = chatsCreated + 1
                  /\ pendingWrites' = SaveChats(pendingWrites, chatsArray')
             ELSE /\ chats' = cs
                  /\ currentChatId' = cs[1].id
                  /\ UNCHANGED <<chatsCreated, pendingWrites>>
    /\ chatReady' = TRUE
    /\ chatLoad' = NullJson
    /\ UNCHANGED <<localStorage, encKey, got, migration, chatCalls>>
    /\ UNCHANGED <<sendVars, config, monitorVars, serverVars, panelVars, renderVars, authVars, streamVars>>

\* ChatManager.createNewChat
createNewChat ==
    /\ ChatCall
    /\ chats' = <<NewChat(chatsCreated + 1)>> \o chats
    /\ currentChatId' = chatsCreated + 1
    /\ chatsCreated' = chatsCreated + 1
    /\ pendingWrites' = SaveChats(pendingWrites, chatsArray)
    /\ UNCHANGED <<localStorage, encKey, got, migration,
                   chatReady, chatLoad, chatsArray, detachedChats>>
    /\ UNCHANGED <<sendVars, config, monitorVars, serverVars, panelVars, renderVars, authVars, streamVars>>

\* ChatManager.switchChat(chatId)
switchChat(chatId) ==
    /\ currentChatId' = IF FindIndex(chats, chatId) # 0 THEN chatId ELSE currentChatId
    /\ UNCHANGED <<chats, chatsCreated, sessionVars>>
    /\ UNCHANGED <<sendVars, config, monitorVars, serverVars, panelVars, renderVars, authVars, streamVars>>

\* a deleteChat that keeps the active-thread pointer whatever it deleted
deleteChatKeepingPointer(chatId) ==
    /\ FindIndex(chats, chatId) # 0
    /\ ChatCall
    /\ chats' = Splice(chats, FindIndex(chats, chatId))
    /\ pendingWrites' = SaveChats(pendingWrites, chatsArray)
    /\ UNCHANGED <<currentChatId, chatsCreated>>
    /\ UNCHANGED <<localStorage, encKey, got, migration,
                   chatReady, chatLoad, chatsArray, detachedChats>>
    /\ UNCHANGED <<sendVars, config, monitorVars, serverVars, panelVars, renderVars, authVars, streamVars>>

\* ChatManager.deleteChat(chatId)
deleteChat(chatId) ==
    /\ ChatCall
    /\ LET index == FindIndex(chats, chatId)
           rest == Splice(chats, index)
       IN IF index = 0
          THEN UNCHANGED <<chats, currentChatId, chatsCreated, pendingWrites>>
          ELSE IF chatId # currentChatId
          THEN /\ chats' = rest
               /\ pendingWrites' = SaveChats(pendingWrites, chatsArray)
               /\ UNCHANGED <<currentChatId, chatsCreated>>
          ELSE IF Len(rest) > 0
          THEN /\ chats' = rest
               /\ currentChatId' = rest[1].id
               /\ pendingWrites' = SaveChats(pendingWrites, chatsArray)
               /\ UNCHANGED chatsCreated
          ELSE /\ chats' = <<NewChat(chatsCreated + 1)>>
               /\ currentChatId' = chatsCreated + 1
               /\ chatsCreated' = chatsCreated + 1
               /\ pendingWrites' = SaveChats(pendingWrites, chatsArray)
    /\ UNCHANGED <<localStorage, encKey, got, migration,
                   chatReady, chatLoad, chatsArray, detachedChats>>
    /\ UNCHANGED <<sendVars, config, monitorVars, serverVars, panelVars, renderVars, authVars, streamVars>>

\* ChatManager.addMessage(message)
addMessage(message) ==
    /\ ChatCall
    /\ IF FindIndex(chats, currentChatId) # 0
       THEN /\ chats' = AddMessage(chats, currentChatId, message)
            /\ pendingWrites' = SaveChats(pendingWrites, chatsArray)
       ELSE UNCHANGED <<chats, pendingWrites>>
    /\ UNCHANGED <<currentChatId, chatsCreated>>
    /\ UNCHANGED <<localStorage, encKey, got, migration,
                   chatReady, chatLoad, chatsArray, detachedChats>>
    /\ UNCHANGED <<sendVars, config, monitorVars, serverVars, panelVars, renderVars, authVars, streamVars>>

\* ChatManager.clearCurrentChat
clearCurrentChat ==
    /\ ChatCall
    /\ IF FindIndex(chats, currentChatId) # 0
       THEN /\ chats' = [chats EXCEPT ![FindIndex(chats, currentChatId)] =
                            [@ EXCEPT !.messages = <<>>, !.title = "New Chat"]]
            /\ pendingWrites' = SaveChats(pendingWrites, chatsArray)
       ELSE UNCHANGED <<chats, pendingWrites>>
    /\ UNCHANGED <<currentChatId, chatsCreated>>
    /\ UNCHANGED <<localStorage, encKey, got, migration,
                   chatReady, chatLoad, chatsArray, detachedChats>>
    /\ UNCHANGED <<sendVars, config, monitorVars, serverVars, panelVars, renderVars, authVars, streamVars>>

\* ------------------------------------------------------------- pending writes
\* what a setItem call serializes: its own value, or the array it was given as
\* that array is now
Serialized(w) ==
    IF w.array = -1 THEN w.value
    ELSE IF w.array = chatsArray THEN ChatsJson(chats)
    ELSE ChatsJson(detachedChats)

\* CryptoUtils.encrypt resumes after await getKey: JSON.stringify(data), then
\* await crypto.subtle.encrypt
EncryptSerializes(w) ==
    /\ w \in pendingWrites
    /\ w.phase = "importKey"
    /\ pendingWrites' = (pendingWrites \ {w}) \cup {[w EXCEPT !.phase = "encrypt", !.value = Serialized(w)]}
    /\ UNCHANGED <<localStorage, encKey, got, migration, chatLoadVars>>
    /\ UNCHANGED <<sendVars, config, chatVars, monitorVars, serverVars, panelVars, renderVars, authVars, streamVars>>

\* CryptoUtils.setItem resumes after await encrypt: localStorage.setItem
SetItemWrites(w) ==
    /\ w \in pendingWrites
    /\ w.phase = "encrypt"
    /\ w.by # "migrate"
    /\ pendingWrites' = pendingWrites \ {w}
    /\ localStorage' = [localStorage EXCEPT ![w.item] = Encrypt(w.key, w.value)]
    /\ UNCHANGED <<encKey, got, migration, chatLoadVars>>
    /\ UNCHANGED <<sendVars, config, chatVars, monitorVars, serverVars, panelVars, renderVars, authVars, streamVars>>

\* the page right after its scripts ran: the CryptoUtils constructor found or
\* generated the key, the ChatManager constructor is awaiting loadChats
InitChat ==
    /\ chatInput = ""
    /\ files = 0
    /\ isProcessing = FALSE
    /\ send = [i \in Slots |-> NoSend]
    /\ webhookInFlight = 0
    /\ recentQueries = <<>>
    /\ config = [webhookUrl |-> TRUE, n8nUrl |-> TRUE]
    /\ chats = <<>>
    /\ currentChatId = 0
    /\ chatsCreated = 0
    /\ now = 0
    /\ currentExecutionId = 0
    /\ executionPollingInterval = 0
    /\ liveIntervals = {}
    /\ intervalsCreated = 0
    /\ graceTimers = {}
    /\ inFlight = {}
    /\ panel = NothingRendered
    /\ list = NothingRendered
    /\ monitorLog = NoMonitorLog
    /\ execution = [e \in ExecIds |-> FreshRecord]
    /\ InitPanel
    /\ encKey \in SessionKeys
    /\ \E text \in {Missing} \cup {CipherText(1, ChatsJson(cs)) : cs \in StoredChats} :
          localStorage = [k \in StorageKeys |->
                IF k = "nox-chats" THEN text
                ELSE IF k = "nox-n8n-config" THEN PlainText(ConfigJson(config))
                ELSE Missing]
    /\ pendingWrites = {}
    /\ got = NothingGot
    /\ migration = NoMigration
    /\ chatReady = FALSE
    /\ chatLoad = GetItem(localStorage, "nox-chats", encKey)
    /\ chatsArray = 0
    /\ detachedChats = <<>>
    /\ chatCalls = 0
    /\ session = CreateSession("admin", 0)
    /\ dateNow = 0
    /\ advances = 0
    /\ logins = {}
    /\ authLog = NoAuthLog
    /\ streams = <<>>
    /\ currentStreamController = 0
    /\ currentStreamingSpeed = "normal"

NextChat ==
    \/ ChatManagerLoads
    \/ createNewChat
    \/ \E id \in ThreadIds : switchChat(id)
    \/ \E id \in ThreadIds : deleteChat(id)
    \/ \E message \in ChatMessages : addMessage(message)
    \/ clearCurrentChat
    \/ \E w \in pendingWrites : EncryptSerializes(w)
    \/ \E w \in pendingWrites : SetItemWrites(w)

SpecChat == InitChat /\ [][NextChat]_vars

\* ------------------------------------------------------------- encrypted store
\* the page outside the store, the session gate and the streaming: nothing
\* sent, nothing monitored, one empty thread
InitIdle ==
    /\ chatInput = ""
    /\ files = 0
    /\ isProcessing = FALSE
    /\ send = [i \in Slots |-> NoSend]
    /\ webhookInFlight = 0
    /\ recentQueries = <<>>
    /\ config = [webhookUrl |-> TRUE, n8nUrl |-> TRUE]
    /\ chats = <<NewChat(1)>>
    /\ currentChatId = 1
    /\ chatsCreated = 1
    /\ now = 0
    /\ currentExecutionId = 0
    /\ executionPollingInterval = 0
    /\ liveIntervals = {}
    /\ intervalsCreated = 0
    /\ graceTimers = {}
    /\ inFlight = {}
    /\ panel = NothingRendered
    /\ list = NothingRendered
    /\ monitorLog = NoMonitorLog
    /\ execution = [e \in ExecIds |-> FreshRecord]
    /\ InitPanel
    /\ chatReady = TRUE
    /\ chatLoad = NullJson
    /\ chatsArray = 0
    /\ detachedChats = <<>>
    /\ chatCalls = 0

\* nobody is logging in, the clock is at the page's opening
InitGate ==
    /\ dateNow = 0
    /\ advances = 0
    /\ logins = {}
    /\ authLog = NoAuthLog

\* nothing is being streamed
InitNoStream ==
    /\ streams = <<>>
    /\ currentStreamController = 0
    /\ currentStreamingSpeed = "normal"

\* the values the callers of setItem pass
JsonValues == {ChatsJson(<<>>), LargeJson}

\* CryptoUtils.setItem(item, v) up to its first await
setItem(item, v) ==
    /\ ChatCall
    /\ Cardinality(pendingWrites) < MaxPending
    /\ pendingWrites' = pendingWrites \cup {SetItemCall(item, "app", -1, v)}
    /\ UNCHANGED <<localStorage, encKey, got, migration, chatReady, chatLoad, chatsArray, detachedChats>>
    /\ UNCHANGED <<sendVars, config, chatVars, monitorVars, serverVars, panelVars, renderVars, authVars, streamVars>>

\* CryptoUtils.getItem(item): localStorage and the key are read before the
\* first await; got records what the call resolves to
getItem(item) ==
    /\ got' = [item |-> item, value |-> GetItem(localStorage, item, encKey)]
    /\ got' # got
    /\ UNCHANGED <<localStorage, encKey, pendingWrites, migration, chatLoadVars>>
    /\ UNCHANGED <<sendVars, config, chatVars, monitorVars, serverVars, panelVars, renderVars, authVars, streamVars>>

\* a logout that leaves the encryption key in sessionStorage
logoutKeepingKey ==
    /\ session.present \/ encKey # 0
    /\ session' = NoSession
    /\ UNCHANGED <<localStorage, encKey, pendingWrites, got, migration, chatLoadVars>>
    /\ UNCHANGED <<dateNow, advances, logins, authLog, streamVars>>
    /\ UNCHANGED <<sendVars, config, chatVars, monitorVars, serverVars, panelVars, renderVars>>

\* AuthManager.logout: the session record is removed, CryptoUtils.clearKey
\* removes the key, the page is left for login.html
logout ==
    /\ session.present \/ encKey # 0
    /\ session' = NoSession
    /\ encKey' = 0
    /\ UNCHANGED <<localStorage, pendingWrites, got, migration, chatLoadVars>>
    /\ UNCHANGED <<dateNow, advances, logins, authLog, streamVars>>
    /\ UNCHANGED <<sendVars, config, chatVars, monitorVars, serverVars, panelVars, renderVars>>

\* the keys some stored text or some waiting write was sealed with
KeysInUse ==
    {localStorage[k].key : k \in {i \in StorageKeys : localStorage[i].kind = "cipher"}}
        \cup {w.key : w \in pendingWrites}

\* CryptoUtils.ensureEncryptionKey in a tab without a key: 32 random bytes
\* make a key nothing was sealed with before
ensureEncryptionKey ==
    /\ encKey = 0
    /\ \E key \in SessionKeys \ KeysInUse : encKey' = key
    /\ UNCHANGED <<localStorage, pendingWrites, got, migration, chatLoadVars>>
    /\ UNCHANGED <<sendVars, config, chatVars, monitorVars, serverVars, panelVars, renderVars, authVars, streamVars>>

\* a page whose stored texts an earlier page load sealed: under the key of
\* this session, or under the key of a session that is over
InitCrypto ==
    /\ InitIdle
    /\ InitGate
    /\ InitNoStream
    /\ session = CreateSession("admin", 0)
    /\ encKey \in SessionKeys
    /\ localStorage = [k \in StorageKeys |->
            IF k = "nox-chats" THEN CipherText(1, ChatsJson(chats))
            ELSE IF k = "nox-n8n-config" THEN PlainText(ConfigJson(config))
            ELSE Missing]
    /\ pendingWrites = {}
    /\ got = NothingGot
    /\ migration = NoMigration

NextCrypto ==
    \/ \E item \in {"nox-chats", "nox-neo4j-config"}, v \in JsonValues : setItem(item, v)
    \/ \E w \in pendingWrites : EncryptSerializes(w)
    \/ \E w \in pendingWrites : SetItemWrites(w)
    \/ \E item \in {"nox-chats", "nox-neo4j-config"} : getItem(item)
    \/ \E c \in Configs : saveConfig(c)
    \/ logout
    \/ ensureEncryptionKey

SpecCrypto == InitCrypto /\ [][NextCrypto]_vars

\* ------------------------------------------------------------- migrateAllData
\* the loop of migrateAllData runs without awaiting over the keys that hold
\* nothing and the keys whose text parses to something that is not an object:
\* the first index from index on whose key makes it await, past the end if none
RECURSIVE MigrateScan(_, _)
MigrateScan(store, index) ==
    IF index > Len(sensitiveKeys) THEN index
    ELSE LET text == store[sensitiveKeys[index]] IN
         IF text.kind = "missing" \/ (text.kind = "json" /\ ~IsJsonObject(text.value))
         THEN MigrateScan(store, index + 1)
         ELSE index

\* the loop runs from index to its next await: on text that parses to an
\* object it calls setItem(key, parsed), on text that does not parse it calls
\* getItem(key); past the last key it returns migratedCount
MigrateRuns(m, index, pending) ==
    LET j == MigrateScan(localStorage, index) IN
    IF j > Len(sensitiveKeys)
    THEN /\ migration' = [m EXCEPT !.pc = "idle", !.index = 0, !.returned = m.migratedCount]
         /\ pendingWrites' = pending
    ELSE IF localStorage[sensitiveKeys[j]].kind = "json"
    THEN /\ migration' = [m EXCEPT !.pc = "setItem", !.index = j]
         /\ pendingWrites' = pending \cup
                {SetItemCall(sensitiveKeys[j], "migrate", -1, localStorage[sensitiveKeys[j]].value)}
    ELSE /\ migration' = [m EXCEPT !.pc = "getItem", !.index = j]
         /\ pendingWrites' = pending

\* CryptoUtils.migrateAllData is called
migrateAllData ==
    /\ migration.pc = "idle"
    /\ migration.runs < MaxMigrations
    /\ MigrateRuns([migration EXCEPT !.runs = @ + 1, !.migratedCount = 0, !.before = localStorage],
                   1, pendingWrites)
    /\ UNCHANGED <<localStorage, encKey, got, chatLoadVars>>
    /\ UNCHANGED <<sendVars, config, chatVars, monitorVars, serverVars, panelVars, renderVars, authVars, streamVars>>

\* the setItem call of the loop stores its text; the loop counts the key and
\* goes on
MigrateSetItemWrites(w) ==
    /\ w \in pendingWrites
    /\ w.phase = "encrypt"
    /\ w.by = "migrate"
    /\ migration.pc = "setItem"
    /\ localStorage' = [localStorage EXCEPT ![w.item] = Encrypt(w.key, w.value)]
    /\ MigrateRuns([migration EXCEPT !.migratedCount = @ + 1], migration.index + 1, pendingWrites \ {w})
    /\ UNCHANGED <<encKey, got, chatLoadVars>>
    /\ UNCHANGED <<sendVars, config, chatVars, monitorVars, serverVars, panelVars, renderVars, authVars, streamVars>>

\* the getItem call of the loop resolves (it never rejects); the loop goes on
MigrateGetItemResolves ==
    /\ migration.pc = "getItem"
    /\ MigrateRuns(migration, migration.index + 1, pendingWrites)
    /\ UNCHANGED <<localStorage, encKey, got, chatLoadVars>>
    /\ UNCHANGED <<sendVars, config, chatVars, monitorVars, serverVars, panelVars, renderVars, authVars, streamVars>>

\* the object an earlier version of the page stored under a key
StoredObject(k) ==
    IF k = "nox-chats" THEN ChatsJson(chats) ELSE ConfigJson(config)

\* the texts a key may hold when the page opens: none, the plain JSON of an
\* object, of a large object, of a value that is not an object, ciphertext of
\* this session and of an earlier one
StoredTexts(k) ==
    {Missing, PlainText(StoredObject(k)), PlainText(LargeJson), PlainText(ScalarJson),
     CipherText(1, StoredObject(k)), CipherText(2, StoredObject(k))}

\* NOXApp.setup calls migrateAllData on a page that has its key
InitMigrate ==
    /\ InitIdle
    /\ InitGate
    /\ InitNoStream
    /\ session = CreateSession("admin", 0)
    /\ encKey = 1
    /\ \E a \in StoredTexts("nox-chats"), b \in StoredTexts("nox-n8n-config"),
          c \in StoredTexts("nox-neo4j-config") :
          localStorage = [k \in StorageKeys |->
                IF k = "nox-chats" THEN a
                ELSE IF k = "nox-n8n-config" THEN b
                ELSE IF k = "nox-neo4j-config" THEN c
                ELSE PlainText(QueriesJson(recentQueries))]
    /\ pendingWrites = {}
    /\ got = NothingGot
    /\ migration = NoMigration

NextMigrate ==
    \/ migrateAllData
    \/ \E w \in pendingWrites : EncryptSerializes(w)
    \/ \E w \in pendingWrites : MigrateSetItemWrites(w)
    \/ MigrateGetItemResolves

SpecMigrate == InitMigrate /\ [][NextMigrate]_vars

\* ------------------------------------------------------------- AuthManager
\* number of times the clock advances in one behaviour
MaxAdvances == 2
\* number of login calls that may be waiting at once
MaxLogins == 1

\* the names tried at the login form: the one of credentials, one it does not
\* have, and one every object inherits
Usernames == {"admin", "guest", "constructor"}
\* the passwords tried: tempPassword of admin, and another one
Passwords == {"nox2024", "wrong"}

\* this.credentials[username] is truthy
HasCredentials(username) == username \in {"admin", "constructor"}

\* the time a call took, counted up to one millisecond past the delay
Waited(elapsed) == IF elapsed > LoginDelay THEN LoginDelay + 1 ELSE elapsed

\* a login that gives up at once on a name it does not know
loginFailingFast(username, password) ==
    /\ ~HasCredentials(username)
    /\ authLog' = [authLog EXCEPT !.login = "false", !.username = username, !.waited = 0]
    /\ UNCHANGED <<session, dateNow, advances, logins, streamVars, storageVars, chatLoadVars>>
    /\ UNCHANGED <<sendVars, config, chatVars, monitorVars, serverVars, panelVars, renderVars>>

\* AuthManager.login(username, password) up to its first await, or to its end:
\* an unknown name starts the delay; the temporary password creates the
\* session and returns true; what an object inherits has no salt, hashPassword
\* throws and the call rejects; otherwise hashPassword is awaited
login(username, password) ==
    /\ IF ~HasCredentials(username)
       THEN /\ Cardinality(logins) < MaxLogins
            /\ logins' = logins \cup {[username |-> username, phase |-> "delay",
                                       startedAt |-> dateNow, delayFrom |-> dateNow]}
            /\ UNCHANGED <<session, authLog>>
       ELSE IF username = "admin" /\ password = "nox2024"
       THEN /\ session' = CreateSession(username, dateNow)
            /\ authLog' = [authLog EXCEPT !.login = "true", !.username = username, !.waited = 0]
            /\ UNCHANGED logins
       ELSE IF username # "admin"
       THEN /\ authLog' = [authLog EXCEPT !.login = "rejected", !.username = username, !.waited = 0]
            /\ UNCHANGED <<session, logins>>
       ELSE /\ Cardinality(logins) < MaxLogins
            /\ logins' = logins \cup {[username |-> username, phase |-> "hash",
                                       startedAt |-> dateNow, delayFrom |-> dateNow]}
            /\ UNCHANGED <<session, authLog>>
    /\ UNCHANGED <<dateNow, advances, streamVars, storageVars, chatLoadVars>>
    /\ UNCHANGED <<sendVars, config, chatVars, monitorVars, serverVars, panelVars, renderVars>>

\* hashPassword resolves: the hash is never the stored one (null), and the
\* delay starts
HashResolves(l) ==
    /\ l \in logins
    /\ l.phase = "hash"
    /\ logins' = (logins \ {l}) \cup {[l EXCEPT !.phase = "delay", !.delayFrom = dateNow]}
    /\ UNCHANGED <<session, dateNow, advances, authLog, streamVars, storageVars, chatLoadVars>>
    /\ UNCHANGED <<sendVars, config, chatVars, monitorVars, serverVars, panelVars, renderVars>>

\* the timer of the delay fires and login returns false
DelayElapses(l) ==
    /\ l \in logins
    /\ l.phase = "delay"
    /\ dateNow >= l.delayFrom + LoginDelay
    /\ logins' = logins \ {l}
    /\ authLog' = [authLog EXCEPT !.login = "false", !.username = l.username,
                                  !.waited = Waited(dateNow - l.startedAt)]
    /\ UNCHANGED <<session, dateNow, advances, streamVars, storageVars, chatLoadVars>>
    /\ UNCHANGED <<sendVars, config, chatVars, monitorVars, serverVars, panelVars, renderVars>>

\* a session check that takes the instant of expiry for expired
isAuthenticatedBeforeExpiry ==
    /\ IF ~session.present THEN
            /\ authLog' = [authLog EXCEPT !.authenticated = "false"]
            /\ UNCHANGED session
       ELSE IF ~session.wellFormed \/ dateNow >= session.expiresAt THEN
            /\ authLog' = [authLog EXCEPT !.authenticated = "false"]
            /\ session' = NoSession
       ELSE
            /\ authLog' = [authLog EXCEPT !.authenticated = "true"]
            /\ UNCHANGED session
    /\ UNCHANGED <<dateNow, advances, logins, streamVars, storageVars, chatLoadVars>>
    /\ UNCHANGED <<sendVars, config, chatVars, monitorVars, serverVars, panelVars, renderVars>>

\* AuthManager.isAuthenticated
isAuthenticated ==
    /\ IF ~session.present THEN
            /\ authLog' = [authLog EXCEPT !.authenticated = "false"]
            /\ UNCHANGED session
       ELSE IF ~session.wellFormed \/ dateNow > session.expiresAt THEN
            /\ authLog' = [authLog EXCEPT !.authenticated = "false"]
            /\ session' = NoSession
       ELSE
            /\ authLog' = [authLog EXCEPT !.authenticated = "true"]
            /\ UNCHANGED session
    /\ UNCHANGED <<dateNow, advances, logins, streamVars, storageVars, chatLoadVars>>
    /\ UNCHANGED <<sendVars, config, chatVars, monitorVars, serverVars, panelVars, renderVars>>

\* the amounts of time that pass between two steps, milliseconds
ClockSteps == {1, LoginDelay, SESSION_TIMEOUT}

\* time passes
ClockAdvances(d) ==
    /\ advances < MaxAdvances
    /\ advances' = advances + 1
    /\ dateNow' = dateNow + d
    /\ UNCHANGED <<session, logins, authLog, streamVars, storageVars, chatLoadVars>>
    /\ UNCHANGED <<sendVars, config, chatVars, monitorVars, serverVars, panelVars, renderVars>>

\* the page opens with the session key holding nothing, a record of a login
\* at that instant, or text that does not parse
InitAuth ==
    /\ InitIdle
    /\ InitGate
    /\ InitNoStream
    /\ session \in {NoSession, GarbledSession, CreateSession("admin", 0)}
    /\ encKey = 1
    /\ localStorage = [k \in StorageKeys |->
            IF k = "nox-chats" THEN CipherText(1, ChatsJson(chats))
            ELSE IF k = "nox-n8n-config" THEN PlainText(ConfigJson(config))
            ELSE Missing]
    /\ pendingWrites = {}
    /\ got = NothingGot
    /\ migration = NoMigration

NextAuth ==
    \/ \E username \in Usernames, password \in Passwords : login(username, password)
    \/ \E l \in logins : HashResolves(l)
    \/ \E l \in logins : DelayElapses(l)
    \/ isAuthenticated
    \/ logout
    \/ \E d \in ClockSteps : ClockAdvances(d)

SpecAuth == InitAuth /\ [][NextAuth]_vars

\* ------------------------------------------------------------- streaming
\* number of displayMessageWithStreaming calls in one behaviour
MaxStreams == 3

\* texts are strings; the backtick, which a string of this language cannot
\* hold, is written ~
Tick == "~"
Fence == Tick \o Tick \o Tick

\* s.charAt(i - 1), s.startsWith(p, i - 1)
CharAt(s, i) == SubSeq(s, i, i)
StartsAt(s, i, p) ==
    /\ i + Len(p) - 1 <= Len(s)
    /\ SubSeq(s, i, i + Len(p) - 1) = p

\* s.indexOf(p, i - 1) + 1
RECURSIVE IndexOf(_, _, _)
IndexOf(s, p, i) ==
    IF i + Len(p) - 1 > Len(s) THEN 0
    ELSE IF StartsAt(s, i, p) THEN i
    ELSE IndexOf(s, p, i + 1)

\* the characters \w and \s match
WordChars ==
    {"a", "b", "c", "d", "e", "f", "g", "h", "i", "j", "k", "l", "m", "n", "o", "p",
     "q", "r", "s", "t", "u", "v", "w", "x", "y", "z", "A", "B", "C", "D", "E", "F",
     "G", "H", "I", "J", "K", "L", "M", "N", "O", "P", "Q", "R", "S", "T", "U", "V",
     "W", "X", "Y", "Z", "0", "1", "2", "3", "4", "5", "6", "7", "8", "9", "_"}
WhiteSpace == {" ", "\n", "\t"}

\* the end of the longest run from i of characters inside (inside = TRUE) or
\* outside the set: the index after it
RECURSIVE RunEnd(_, _, _, _)
RunEnd(s, i, set, inside) ==
    IF i > Len(s) \/ ((CharAt(s, i) \in set) # inside) THEN i
    ELSE RunEnd(s, i + 1, set, inside)

\* /```(\w+)?\n([\s\S]*?)```/ at i: the index of the last character of the
\* match, 0 without a match
CodeBlockEnd(s, i) ==
    IF ~StartsAt(s, i, Fence) THEN 0
    ELSE LET k == RunEnd(s, i + 3, WordChars, TRUE) IN
         IF k > Len(s) \/ CharAt(s, k) # "\n" THEN 0
         ELSE LET e == IndexOf(s, Fence, k + 1) IN
              IF e = 0 THEN 0 ELSE e + 2

\* /\|[^\n]+\|\n/ at i: the index of the newline that ends the row, 0
\* without a match
TableRowEnd(s, i) ==
    IF i > Len(s) \/ CharAt(s, i) # "|" THEN 0
    ELSE LET nl == IndexOf(s, "\n", i + 1) IN
         IF nl = 0 \/ nl < i + 3 \/ CharAt(s, nl - 1) # "|" THEN 0 ELSE nl

\* /(\|[^\n]+\|\n)+/ at i: the index of the last character of the match
RECURSIVE TableEnd(_, _)
TableEnd(s, i) ==
    LET nl == TableRowEnd(s, i) IN
    IF nl = 0 THEN 0
    ELSE LET more == TableEnd(s, nl + 1) IN
         IF more = 0 THEN nl ELSE more

MatchEnd(type, s, i) ==
    IF type = "code" THEN CodeBlockEnd(s, i) ELSE TableEnd(s, i)

\* `__BLOCK_${n}__`
Digits == <<"0", "1", "2", "3", "4", "5", "6", "7", "8", "9">>
Placeholder(n) == "__BLOCK_" \o Digits[n + 1] \o "__"

\* streamableText.replace(regex /g, callback) from i on: every match becomes
\* the placeholder of the next block and is pushed to blocks
RECURSIVE Extract(_, _, _, _)
Extract(type, s, i, acc) ==
    IF i > Len(s) THEN acc
    ELSE LET e == MatchEnd(type, s, i) IN
         IF e = 0
         THEN Extract(type, s, i + 1, [acc EXCEPT !.streamableText = @ \o CharAt(s, i)])
         ELSE Extract(type, s, e + 1,
                      [streamableText |-> acc.streamableText \o Placeholder(Len(acc.blocks)),
                       blocks |-> Append(acc.blocks, [type |-> type, content |-> SubSeq(s, i, e)])])

\* NOXApp.extractBlocks: code blocks first, tables next
extractBlocks(content) ==
    LET code == Extract("code", content, 1, [streamableText |-> "", blocks |-> <<>>])
    IN  Extract("table", code.streamableText, 1, [streamableText |-> "", blocks |-> code.blocks])

\* text.split(/(\s+)/) from i on: the pieces between the runs of whitespace
\* and the runs themselves
RECURSIVE Split(_, _)
Split(s, i) ==
    LET k == RunEnd(s, i, WhiteSpace, FALSE) IN
    IF k > Len(s) THEN <<SubSeq(s, i, Len(s))>>
    ELSE LET m == RunEnd(s, k, WhiteSpace, TRUE) IN
         <<SubSeq(s, i, k - 1), SubSeq(s, k, m - 1)>> \o Split(s, m)

\* the replacement text of String.prototype.replace for a replacement string:
\* $$ is a dollar sign, $& the match, $` what precedes it, $' what follows it
RECURSIVE Expand(_, _, _, _, _)
Expand(replacement, i, before, match, after) ==
    IF i > Len(replacement) THEN ""
    ELSE IF StartsAt(replacement, i, "$$")
    THEN "$" \o Expand(replacement, i + 2, before, match, after)
    ELSE IF StartsAt(replacement, i, "$&")
    THEN match \o Expand(replacement, i + 2, before, match, after)
    ELSE IF StartsAt(replacement, i, "$" \o Tick)
    THEN before \o Expand(replacement, i + 2, before, match, after)
    ELSE IF StartsAt(replacement, i, "$'")
    THEN after \o Expand(replacement, i + 2, before, match, after)
    ELSE CharAt(replacement, i) \o Expand(replacement, i + 1, before, match, after)

\* text.replace(pattern, replacement) with a string pattern: the first
\* occurrence only
Replace(text, pattern, replacement) ==
    LET at == IndexOf(text, pattern, 1) IN
    IF at = 0 THEN text
    ELSE LET before == SubSeq(text, 1, at - 1)
             after == SubSeq(text, at + Len(pattern), Len(text))
         IN  before \o Expand(replacement, 1, before, pattern, after) \o after

\* blocks.forEach((block, index) => text = text.replace(`__BLOCK_${index}__`,
\* block.content)) from block n on
RECURSIVE Substitute(_, _, _)
Substitute(text, blocks, n) ==
    IF n > Len(blocks) THEN text
    ELSE Substitute(Replace(text, Placeholder(n - 1), blocks[n].content), blocks, n + 1)

\* the message bodies streamed: plain words, a code block, a shell script
\* that uses $$, a table, a body that quotes a placeholder
Bodies ==
    {"Hi  there",
     "Run:\n" \o Fence \o "js\nlet x\n" \o Fence,
     Fence \o "sh\necho $$\n" \o Fence,
     "|a|b|\n|1|2|\nend",
     "__BLOCK_0__ " \o Fence \o "\nx" \o Fence}

\* NOXApp.streamingSpeedOptions, milliseconds per word
streamingSpeedOptions == [slow |-> 80, normal |-> 40, fast |-> 15, instant |-> 0]

\* this.streamingSpeedOptions[this.currentStreamingSpeed] || 40
Delay(speed) ==
    IF speed \in DOMAIN streamingSpeedOptions /\ streamingSpeedOptions[speed] # 0
    THEN streamingSpeedOptions[speed]
    ELSE 40

\* streamText has not started its loop; delay is the one of the timer it
\* awaits, 0 when it awaits none
NewStream(content) ==
    LET extracted == extractBlocks(content) IN
    [content |-> content, text |-> extracted.streamableText, blocks |-> extracted.blocks,
     words |-> Split(extracted.streamableText, 1), i |-> 0, currentText |-> "",
     displayText |-> "", cancelled |-> FALSE, pc |-> "loop", delay |-> 0]

\* streamText from the test of its loop to the next await: a word is appended
\* and displayed and, the delay being positive, a timer awaited; or the loop
\* is left and the final text displayed
RECURSIVE StreamIterationAt(_, _)
StreamIterationAt(st, speed) ==
    IF st.i >= Len(st.words) \/ st.cancelled
    THEN [st EXCEPT !.pc = "done", !.displayText = Substitute(st.currentText, st.blocks, 1),
                    !.delay = 0]
    ELSE LET currentText == st.currentText \o st.words[st.i + 1]
             appended == [st EXCEPT !.i = @ + 1, !.currentText = currentText,
                                    !.displayText = Substitute(currentText, st.blocks, 1),
                                    !.delay = Delay(speed)]
         IN  IF appended.delay > 0
             THEN [appended EXCEPT !.pc = "waiting"]
             ELSE StreamIterationAt(appended, speed)

\* the iteration under the speed that is selected when it runs
StreamIteration(st) == StreamIterationAt(st, currentStreamingSpeed)

\* NOXApp.setStreamingSpeed(speed)
setStreamingSpeed(speed) ==
    /\ speed \in DOMAIN streamingSpeedOptions
    /\ speed # currentStreamingSpeed
    /\ currentStreamingSpeed' = speed
    /\ localStorage' = [localStorage EXCEPT !["streaming-speed"] = RawText(speed)]
    /\ UNCHANGED <<streams, currentStreamController, authVars, chatLoadVars>>
    /\ UNCHANGED <<encKey, pendingWrites, got, migration>>
    /\ UNCHANGED <<sendVars, config, chatVars, monitorVars, serverVars, panelVars, renderVars>>

\* NOXApp.displayMessageWithStreaming(message) up to the first await of
\* streamText
StreamStarted(first) ==
    /\ Len(streams) < MaxStreams
    /\ streams' = Append([n \in 1 .. Len(streams) |->
                            IF n = currentStreamController
                            THEN [streams[n] EXCEPT !.cancelled = TRUE]
                            ELSE streams[n]],
                         first)
    /\ currentStreamController' = Len(streams) + 1

\* displayMessageWithStreaming called with a message of the given content
displayMessageWithStreaming(content) ==
    /\ StreamStarted(StreamIteration(NewStream(content)))
    /\ UNCHANGED <<currentStreamingSpeed, authVars, storageVars, chatLoadVars>>
    /\ UNCHANGED <<sendVars, config, chatVars, monitorVars, serverVars, panelVars, renderVars>>

\* the delay of stream n is over: streamText goes on, and when it returns
\* displayMessageWithStreaming clears the controller
DelayFires(n) ==
    /\ n \in 1 .. Len(streams)
    /\ streams[n].pc = "waiting"
    /\ streams' = [streams EXCEPT ![n] = StreamIteration(@)]
    /\ currentStreamController' =
            IF streams'[n].pc = "done" THEN 0 ELSE currentStreamController
    /\ UNCHANGED <<currentStreamingSpeed, authVars, storageVars, chatLoadVars>>
    /\ UNCHANGED <<sendVars, config, chatVars, monitorVars, serverVars, panelVars, renderVars>>

InitStream ==
    /\ InitIdle
    /\ InitGate
    /\ InitNoStream
    /\ session = CreateSession("admin", 0)
    /\ encKey = 1
    /\ localStorage = [k \in StorageKeys |->
            IF k = "nox-chats" THEN CipherText(1, ChatsJson(chats))
            ELSE IF k = "nox-n8n-config" THEN PlainText(ConfigJson(config))
            ELSE Missing]
    /\ pendingWrites = {}
    /\ got = NothingGot
    /\ migration = NoMigration

NextStream ==
    \/ \E content \in Bodies : displayMessageWithStreaming(content)
    \/ \E n \in 1 .. Len(streams) : DelayFires(n)
    \/ \E speed \in {"slow", "normal", "fast", "instant", "turbo"} : setStreamingSpeed(speed)

SpecStream == InitStream /\ [][NextStream]_vars

\* ------------------------------------------------- a send with its stream
\* the texts sendMessage streams: the replies of the webhook, the message of
\* an empty reply and the friendly error messages
SendContents ==
    {"out", ScalarText, EmptyReplyText} \cup {getFriendlyErrorMessage(error) : error \in Errors}

\* the states a stream passes through from st on, one per delay, up to its end
RECURSIVE StreamRun(_, _)
StreamRun(st, speed) ==
    IF st.pc = "done" THEN <<st>>
    ELSE <<st>> \o StreamRun(StreamIterationAt(st, speed), speed)

\* the run of the stream of every text sendMessage streams, under every speed
StreamRuns ==
    [content \in SendContents, speed \in DOMAIN streamingSpeedOptions |->
        StreamRun(StreamIterationAt(NewStream(content), speed), speed)]

\* sendMessage reaches await displayMessageWithStreaming: the stream of the
\* reply or of the error message starts
SendStreams(i) ==
    /\ send[i].pc = "stream"
    /\ StreamStarted(StreamRuns[send[i].content, currentStreamingSpeed][1])
    /\ send' = [send EXCEPT ![i] = [@ EXCEPT !.pc = "streaming"]]
    /\ UNCHANGED <<chatInput, files, isProcessing, webhookInFlight, recentQueries>>
    /\ UNCHANGED <<currentStreamingSpeed, authVars, storageVars, chatLoadVars>>
    /\ UNCHANGED <<config, chatVars, monitorVars, serverVars, panelVars, renderVars>>

\* the delay of stream n is over while a send awaits its stream: the next
\* state of its run, or its end when it was cancelled
SendDelayFires(n) ==
    /\ n \in 1 .. Len(streams)
    /\ streams[n].pc = "waiting"
    /\ streams' = [streams EXCEPT ![n] =
            IF @.cancelled THEN [@ EXCEPT !.pc = "done", !.delay = 0]
            ELSE StreamRuns[@.content, currentStreamingSpeed][@.i + 1]]
    /\ currentStreamController' =
            IF streams'[n].pc = "done" THEN 0 ELSE currentStreamController
    /\ UNCHANGED <<currentStreamingSpeed, authVars, storageVars, chatLoadVars>>
    /\ UNCHANGED <<sendVars, config, chatVars, monitorVars, serverVars, panelVars, renderVars>>

\* a return that skips the finally block on the early return of an empty reply
SendStreamReturnsKeepingLock(i) ==
    /\ send[i].pc = "streaming"
    /\ streams[Len(streams)].pc = "done"
    /\ chats' = AddMessage(chats, currentChatId, [role |-> "assistant", content |-> send[i].content])
    /\ isProcessing' = (send[i].path = "empty")
    /\ send' = [send EXCEPT ![i] = [@ EXCEPT !.pc = "done", !.replyText = "", !.response = NoResponse]]
    /\ UNCHANGED <<chatInput, files, webhookInFlight, recentQueries,
                   config, currentChatId, chatsCreated, monitorVars, serverVars, panelVars, renderVars, sessionVars>>

\* the stream of the send has run to its end: the message is stored, then the
\* finally block releases isProcessing
SendStreamReturns(i) ==
    /\ send[i].pc = "streaming"
    /\ streams[Len(streams)].pc = "done"
    /\ chats' = AddMessage(chats, currentChatId, [role |-> "assistant", content |-> send[i].content])
    /\ isProcessing' = FALSE
    /\ send' = [send EXCEPT ![i] = [@ EXCEPT !.pc = "done", !.replyText = "", !.response = NoResponse]]
    /\ UNCHANGED <<chatInput, files, webhookInFlight, recentQueries,
                   config, currentChatId, chatsCreated, monitorVars, serverVars, panelVars, renderVars, sessionVars>>

\* the webhook answers of this study: those that start no monitoring
QuietResponses == {resp \in PlainResponses : resp.executionId = 0}

NextSendStream ==
    \/ TypeInput("Hello")
    \/ AttachFile
    \/ SendMessageStarts
    \/ \E i \in Slots, ok \in BOOLEAN : PrepareFilesSettles(i, ok)
    \/ \E i \in Slots, error \in WebhookErrors : WebhookFails(i, error)
    \/ \E i \in Slots, resp \in QuietResponses : WebhookAnswers(i, resp)
    \/ \E i \in Slots : SendStreams(i)
    \/ \E n \in 1 .. Len(streams) : SendDelayFires(n)
    \/ \E i \in Slots : SendStreamReturns(i)

\* every promise sendMessage awaits settles: the file reads, the webhook
\* request (the proviso of the claim) and the timers of the stream
SendStreamFairness ==
    /\ WF_vars(\E i \in Slots, ok \in BOOLEAN : PrepareFilesSettles(i, ok))
    /\ WF_vars(\/ \E i \in Slots, error \in WebhookErrors : WebhookFails(i, error)
               \/ \E i \in Slots, resp \in QuietResponses : WebhookAnswers(i, resp))
    /\ WF_vars(\E i \in Slots : SendStreams(i))
    /\ WF_vars(\E n \in 1 .. Len(streams) : SendDelayFires(n))
    /\ WF_vars(\E i \in Slots : SendStreamReturns(i))

SpecSendStream == Init /\ [][NextSendStream]_vars /\ SendStreamFairness

\* ------------------------------------------------- graph auto-refresh
\* setInterval calls of one kind the model follows
MaxIntervals == 3

\* what the user may have typed in the query box
CypherTexts == {"", " ", "MATCH (n) RETURN n"}

\* the graph interval handle with the intervals that are set
GraphPoll ==
    [handle |-> graphPollingInterval, live |-> liveGraphIntervals,
     created |-> graphIntervalsCreated]

\* stopGraphPolling: clears the interval of the handle, if there is one
StoppedPolling(p) ==
    IF p.handle # 0 THEN [p EXCEPT !.live = @ \ {p.handle}, !.handle = 0] ELSE p

\* startGraphPolling: stops, then sets a new 5 s interval and keeps its handle
StartedPolling(p) ==
    LET q == StoppedPolling(p)
    IN  [q EXCEPT !.created = @ + 1, !.handle = q.created + 1,
                  !.live = @ \cup {q.created + 1}]

SetGraphPoll(p) ==
    /\ graphPollingInterval' = p.handle
    /\ liveGraphIntervals' = p.live
    /\ graphIntervalsCreated' = p.created

\* the user edits the query box
EditCypherQuery(text) ==
    /\ text # cypherQuery
    /\ cypherQuery' = text
    /\ UNCHANGED <<graphPollingInterval, graphAutoRefreshEnabled, liveGraphIntervals,
                   graphIntervalsCreated, graph, workflowVars, querySaves>>
    /\ UNCHANGED <<sendVars, config, chatVars, monitorVars, serverVars, renderVars, sessionVars>>

\* the auto-refresh button: stops when enabled; starts when there is a query
toggleGraphAutoRefresh ==
    /\ IF graphAutoRefreshEnabled
       THEN /\ SetGraphPoll(StoppedPolling(GraphPoll))
            /\ graphAutoRefreshEnabled' = FALSE
       ELSE IF Trim(cypherQuery) = ""
       THEN UNCHANGED <<graphPollingInterval, liveGraphIntervals, graphIntervalsCreated,
                        graphAutoRefreshEnabled>>
       ELSE /\ graphIntervalsCreated < MaxIntervals
            /\ SetGraphPoll(StartedPolling(GraphPoll))
            /\ graphAutoRefreshEnabled' = TRUE
    /\ UNCHANGED <<cypherQuery, graph, workflowVars, querySaves>>
    /\ UNCHANGED <<sendVars, config, chatVars, monitorVars, serverVars, renderVars, sessionVars>>

\* startGraphPolling called on its own
startGraphPolling ==
    /\ graphIntervalsCreated < MaxIntervals
    /\ SetGraphPoll(StartedPolling(GraphPoll))
    /\ UNCHANGED <<graphAutoRefreshEnabled, cypherQuery, graph, workflowVars, querySaves>>
    /\ UNCHANGED <<sendVars, config, chatVars, monitorVars, serverVars, renderVars, sessionVars>>

\* stopGraphPolling called on its own
stopGraphPolling ==
    /\ SetGraphPoll(StoppedPolling(GraphPoll))
    /\ UNCHANGED <<graphAutoRefreshEnabled, cypherQuery, graph, workflowVars, querySaves>>
    /\ UNCHANGED <<sendVars, config, chatVars, monitorVars, serverVars, renderVars, sessionVars>>

\* a close that leaves the interval running
closeGraphViewKeepingPolling ==
    /\ graphAutoRefreshEnabled' = FALSE
    /\ graph' \in {graph, NoGraph}
    /\ UNCHANGED <<graphPollingInterval, liveGraphIntervals, graphIntervalsCreated,
                   cypherQuery, workflowVars, querySaves>>
    /\ UNCHANGED <<sendVars, config, chatVars, monitorVars, serverVars, renderVars, sessionVars>>

\* closing the graph window stops auto-refresh if it is enabled; whether the
\* visualization is cleared depends on neo4jManager.viz
closeGraphView ==
    /\ IF graphAutoRefreshEnabled
       THEN /\ SetGraphPoll(StoppedPolling(GraphPoll))
            /\ graphAutoRefreshEnabled' = FALSE
       ELSE UNCHANGED <<graphPollingInterval, liveGraphIntervals, graphIntervalsCreated,
                        graphAutoRefreshEnabled>>
    /\ graph' \in {graph, NoGraph}
    /\ UNCHANGED <<cypherQuery, workflowVars, querySaves>>
    /\ UNCHANGED <<sendVars, config, chatVars, monitorVars, serverVars, renderVars, sessionVars>>

\* ------------------------------------------------- executions refresh
\* the values of the workflow selector; 0 is its empty option
WorkflowIds == 0 .. 2

\* handleWorkflowChange up to its await: selects the workflow, clears the
\* refresh interval and, when a workflow is selected, waits for loadExecutions
handleWorkflowChange(id) ==
    /\ refreshIntervalsCreated + workflowChanges < MaxIntervals
    /\ id # selectedWorkflowId
    /\ selectedWorkflowId' = id
    /\ executionsRefreshInterval' = 0
    /\ liveRefreshIntervals' = liveRefreshIntervals \ {executionsRefreshInterval}
    /\ workflowChanges' = IF id = 0 THEN workflowChanges ELSE workflowChanges + 1
    /\ UNCHANGED <<refreshIntervalsCreated, graphPollVars, graph, querySaves>>
    /\ UNCHANGED <<sendVars, config, chatVars, monitorVars, serverVars, renderVars, sessionVars>>

\* loadExecutions of a handleWorkflowChange call has resolved: the call sets
\* the 2 s refresh interval and keeps its handle
LoadExecutionsResolves ==
    /\ workflowChanges > 0
    /\ workflowChanges' = workflowChanges - 1
    /\ refreshIntervalsCreated' = refreshIntervalsCreated + 1
    /\ executionsRefreshInterval' = refreshIntervalsCreated + 1
    /\ liveRefreshIntervals' = liveRefreshIntervals \cup {refreshIntervalsCreated + 1}
    /\ UNCHANGED <<selectedWorkflowId, graphPollVars, graph, querySaves>>
    /\ UNCHANGED <<sendVars, config, chatVars, monitorVars, serverVars, renderVars, sessionVars>>

\* ------------------------------------------------- graph expansion
\* the database behind the graph panel: nodes A, B, C, D as 1 .. 4 and the
\* relationships A->B, A->C, C->D, B->A, C->A, each under its id
GraphNodes == 1 .. 4
EdgeEnds == <<(<<1, 2>>), (<<1, 3>>), (<<3, 4>>), (<<2, 1>>), (<<3, 1>>)>>

\* what a query of the panel may return: nodes and relationships in the
\* order of the records
QueryResults ==
    {[nodes |-> <<1, 2>>, edges |-> <<1>>],
     [nodes |-> <<3, 1>>, edges |-> <<2>>],
     [nodes |-> <<4>>, edges |-> <<>>],
     [nodes |-> <<>>, edges |-> <<>>]}

\* the elements of a sequence
Range(seq) == {seq[n] : n \in 1 .. Len(seq)}

\* a sequence that holds the members of a set of numbers, in their order
RECURSIVE Ascending(_)
Ascending(set) ==
    IF set = {} THEN <<>>
    ELSE LET least == CHOOSE x \in set : \A y \in set : x <= y
         IN  <<least>> \o Ascending(set \ {least})

\* the members of a sequence that are in a set, in the order they have
Within(seq, set) == SelectSeq(seq, LAMBDA x : x \in set)

\* merging into the rendered set what is not rendered yet
Merged(seq, new) == seq \o Within(new, Range(new) \ Range(seq))

\* the 1-hop neighbor query of a node: its relationships with their ends
Neighbors(id) ==
    LET incident == {e \in 1 .. Len(EdgeEnds) : id \in Range(EdgeEnds[e])}
    IN  [nodes |-> Ascending(UNION {Range(EdgeEnds[e]) : e \in incident}),
         edges |-> Ascending(incident)]

\* neo4jManager.collapseAll: drops the nodes that the original query did not
\* return, then the relationships left without an end
Collapsed(g) ==
    IF g.expanded = {} THEN g
    ELSE LET nodes == Within(g.nodes, g.originalNodeIds)
         IN  [g EXCEPT !.nodes = nodes,
                       !.edges = Within(g.edges,
                            {e \in Range(g.edges) : Range(EdgeEnds[e]) \subseteq Range(nodes)}),
                       !.expanded = {}]

\* executeGraphQuery with no graph rendered yet: the first render keeps the
\* ids of the nodes the query returned
executeGraphQuery(result) ==
    /\ Trim(cypherQuery) # ""
    /\ ~graph.network
    /\ graph' = [network |-> TRUE, nodes |-> result.nodes, edges |-> result.edges,
                 originalNodeIds |-> Range(result.nodes), expanded |-> {}]
    /\ UNCHANGED <<graphPollVars, workflowVars, querySaves>>
    /\ UNCHANGED <<sendVars, config, chatVars, monitorVars, serverVars, renderVars, sessionVars>>

\* a double click on a rendered node
expandNode(id) ==
    /\ graph.network
    /\ id \in Range(graph.nodes)
    /\ graph' = [graph EXCEPT !.nodes = Merged(@, Neighbors(id).nodes),
                              !.edges = Merged(@, Neighbors(id).edges),
                              !.expanded = @ \cup {id}]
    /\ UNCHANGED <<graphPollVars, workflowVars, querySaves>>
    /\ UNCHANGED <<sendVars, config, chatVars, monitorVars, serverVars, renderVars, sessionVars>>

\* a clear that empties the graph
clearGraphToNothing ==
    /\ graph.network
    /\ graph' = [graph EXCEPT !.nodes = <<>>, !.edges = <<>>, !.expanded = {}]
    /\ UNCHANGED <<graphPollVars, workflowVars, querySaves>>
    /\ UNCHANGED <<sendVars, config, chatVars, monitorVars, serverVars, renderVars, sessionVars>>

\* the clear button: collapses a rendered graph to the original query
clearGraph ==
    /\ graph.network
    /\ graph' = Collapsed(graph)
    /\ UNCHANGED <<graphPollVars, workflowVars, querySaves>>
    /\ UNCHANGED <<sendVars, config, chatVars, monitorVars, serverVars, renderVars, sessionVars>>

\* ------------------------------------------------- recent queries panel
\* the queries the model follows, and the repeated saves among the calls;
\* querySaves counts the queries saved for the first time and the saves of a
\* query saved before, and keeps the query of the last save
MaxQueries == 21
MaxResaves == 2

\* the n-th query
QueryText(n) == "q" \o ToString(n)

\* NOXApp.saveRecentQuery(query): the list is updated and written to storage
saveRecentQuery(query) ==
    /\ recentQueries' = SaveRecentQuery(recentQueries, query)
    /\ localStorage' = IF query = "" \/ Trim(query) = "" THEN localStorage
                       ELSE [localStorage EXCEPT !["nox-ai-recent-queries"] =
                                PlainText(QueriesJson(recentQueries'))]
    /\ UNCHANGED <<chatInput, files, isProcessing, send, webhookInFlight>>
    /\ UNCHANGED <<encKey, pendingWrites, got, migration, chatLoadVars, authVars, streamVars>>
    /\ UNCHANGED <<config, chatVars, monitorVars, serverVars, graphPollVars, graph, workflowVars,
                   renderVars>>

\* a save of the next query that was never saved
SavesNewQuery ==
    /\ querySaves.fresh < MaxQueries
    /\ saveRecentQuery(QueryText(querySaves.fresh + 1))
    /\ querySaves' = [querySaves EXCEPT !.fresh = @ + 1, !.last = QueryText(querySaves.fresh + 1)]

\* the queries saved before that the model saves again: the first, the
\* second and the last of the list, and the oldest query, which the list may
\* have dropped
SavedBefore ==
    {recentQueries[k] : k \in {1, 2, Len(recentQueries)} \cap (1 .. Len(recentQueries))}
        \cup {QueryText(n) : n \in {1} \cap (1 .. querySaves.fresh)}

\* a save of a query that was saved before
SavesQueryAgain(query) ==
    /\ query \in SavedBefore
    /\ querySaves.again < MaxResaves
    /\ saveRecentQuery(query)
    /\ querySaves' = [querySaves EXCEPT !.again = @ + 1, !.last = query]

\* a save of an empty or blank query
SavesBlankQuery(blank) ==
    /\ saveRecentQuery(blank)
    /\ UNCHANGED querySaves

InitPanels ==
    /\ InitIdle
    /\ InitGate
    /\ InitNoStream
    /\ session = CreateSession("admin", 0)
    /\ encKey = 1
    /\ localStorage = [k \in StorageKeys |->
            IF k = "nox-chats" THEN CipherText(1, ChatsJson(chats))
            ELSE IF k = "nox-n8n-config" THEN PlainText(ConfigJson(config))
            ELSE Missing]
    /\ pendingWrites = {}
    /\ got = NothingGot
    /\ migration = NoMigration

NextPanels ==
    \/ \E text \in CypherTexts : EditCypherQuery(text)
    \/ toggleGraphAutoRefresh
    \/ startGraphPolling
    \/ stopGraphPolling
    \/ closeGraphView
    \/ \E id \in WorkflowIds : handleWorkflowChange(id)
    \/ LoadExecutionsResolves

SpecPanels == InitPanels /\ [][NextPanels]_vars

NextQueries ==
    \/ SavesNewQuery
    \/ \E query \in SavedBefore : SavesQueryAgain(query)
    \/ \E blank \in {"", " "} : SavesBlankQuery(blank)

SpecQueries == InitPanels /\ [][NextQueries]_vars

NextGraph ==
    \/ \E text \in CypherTexts : EditCypherQuery(text)
    \/ \E result \in QueryResults : executeGraphQuery(result)
    \/ \E id \in GraphNodes : expandNode(id)
    \/ clearGraph
    \/ closeGraphView

SpecGraph == InitPanels /\ [][NextGraph]_vars

\* ============================================================= properties

\* ---- C1: every sendMessage call that passed the guards stores exactly one
\* assistant message after its user message, on every outcome of the webhook
\* call: the store holds one user message per accepted call and one assistant
\* message per call that ran to completion, and a call completes on one of the
\* reply, empty-reply and error paths.
C1_OneAssistantMessagePerSend ==
    /\ CountRole(chats, "user") = Cardinality({i \in Slots : send[i].pc # "unused"})
    /\ CountRole(chats, "assistant") = Cardinality(Completed)
    /\ \A i \in Completed : send[i].path \in {"reply", "empty", "error"}

\* a send completed on the error path and its message is in the store
C1_Witness ==
    \E i \in Slots : /\ send[i].pc = "done"
                     /\ send[i].path = "error"
                     /\ CountRole(chats, "assistant") = 1

\* ---- C2: the reply extracted from [r], {data: r} and r is the value of the
\* highest-priority key of r (output, reply, message), for every r whose keys
\* are absent or hold a non-empty string, one key at least being present.
StringAssignments ==
    {r \in Fields : /\ r.output # "" /\ r.message # NULLV
                    /\ r # NoFields}

ShapesOf(r) ==
    {[shape |-> "array", item |-> [f |-> r, data |-> NoData], executionId |-> 0],
     [shape |-> "object", item |-> [f |-> NoFields, data |-> [kind |-> "object", f |-> r]], executionId |-> 0],
     [shape |-> "object", item |-> [f |-> r, data |-> NoData], executionId |-> 0]}

HighestPriorityValue(r) ==
    IF r.output # UNDEF THEN r.output ELSE IF r.reply # UNDEF THEN r.reply ELSE r.message

C2_ShapeIndependentReply ==
    \A i \in Slots : \A r \in StringAssignments :
        [send[i].response EXCEPT !.executionId = 0] \in ShapesOf(r)
            => send[i].replyText = HighestPriorityValue(r)

\* ---- C3: for an object response the known fields are looked up at the top
\* level first, then inside data, and the response is stringified only when
\* neither level has a known field.
StatedObjectReply(item) ==
    Or(item.f.output, Or(item.f.reply, Or(item.f.message,
       Or(DataMember(item.data, "output"), Or(DataMember(item.data, "reply"),
          Or(DataMember(item.data, "message"), Stringify(item)))))))

C3_TopLevelBeforeNested ==
    \A i \in Slots :
        send[i].response.shape = "object" => send[i].replyText = StatedObjectReply(send[i].response.item)

\* ---- C4: while a send is outstanding a further sendMessage call changes
\* nothing (no request, no stored message, input and files kept), and at most
\* one webhook request is in flight.
C4_BusySendIsNoOp ==
    /\ [](webhookInFlight <= 1)
    /\ [][isProcessing /\ (SendMessageReturnsEarly \/ SendMessageStarts)
            => UNCHANGED <<webhookInFlight, chats, chatInput, files, send>>]_vars

\* a request is in flight and the input box holds a message to send
C4_Witness ==
    /\ isProcessing
    /\ webhookInFlight = 1
    /\ Trim(chatInput) # ""

\* ---- C5: once a fetched record of the monitored execution reported it
\* finished or stopped, and no execution is started since, the polling state is
\* kept during the grace window and is cleared, for good, after it.
C5_GraceWindowThenCleared ==
    monitorLog.graceFrom >= 0 =>
        /\ now < monitorLog.graceFrom + GraceWindow
              => executionPollingInterval # 0 /\ currentExecutionId # 0
        /\ now > monitorLog.graceFrom + GraceWindow
              => executionPollingInterval = 0 /\ currentExecutionId = 0

\* ---- C6: no status fetch is issued after the first fetched record that
\* reports the monitored execution finished: from then on, as long as no
\* execution is started, the number of fetches issued stays what it was.
C6_NoFetchAfterFinished ==
    [][monitorLog.graceFrom >= 0 /\ monitorLog'.graceFrom >= 0
          => monitorLog'.polls = monitorLog.polls]_vars

\* ---- C7: at most one execution-polling interval is live, and it is the one
\* the most recent startExecutionMonitoring created and the handle the manager holds.
C7_SingleLiveInterval ==
    /\ Cardinality(liveIntervals) <= 1
    /\ \A t \in liveIntervals : t.handle = intervalsCreated /\ t.handle = executionPollingInterval

\* a second start has replaced the interval of the first
C7_Witness ==
    /\ intervalsCreated = 2
    /\ Cardinality(liveIntervals) = 1
    /\ executionPollingInterval = 2

\* ---- C8: when a status fetch of the monitored execution is rejected by the
\* cross-origin policy, the interval is cleared at once, and from then on, as
\* long as no execution is started, no further fetch is issued.
C8_CorsStopsPolling ==
    [][/\ \A f \in inFlight : FetchFails(f, "cors") /\ f.exec = currentExecutionId
                                  => executionPollingInterval' = 0
       /\ monitorLog.corsSeen /\ monitorLog'.corsSeen => inFlight' \subseteq inFlight]_vars

\* ---- C9: a status fetch that fails with a non-2xx status or a rejection
\* other than a cross-origin one leaves the interval handle, the live interval,
\* currentExecutionId and the rendered panel as they were, and the live
\* interval stays due within one period, so the next tick polls again.
C9_OtherFailuresKeepPolling ==
    /\ [][\A f \in inFlight : \A failure \in {"status", "network"} :
            FetchFails(f, failure)
              => UNCHANGED <<executionPollingInterval, currentExecutionId, liveIntervals, graceTimers, panel>>]_vars
    /\ [](\A t \in liveIntervals : now <= t.next /\ t.next <= now + PollPeriod)

\* polling goes on after MaxFailStreak consecutive failures of the monitored
\* execution, none of them cross-origin
C9_Witness ==
    /\ monitorLog.failStreak = MaxFailStreak
    /\ ~monitorLog.corsSeen
    /\ monitorLog.polls > MaxFailStreak
    /\ executionPollingInterval # 0
    /\ currentExecutionId # 0

\* ---- C10: the status shown for a node with run attempts is error when its
\* last run carries an error, else running when the execution is neither
\* finished nor stopped, else completed, in the panel and in the list.
StatedStatus(rec, n) ==
    IF rec.runData[n][Len(rec.runData[n])] THEN "error"
    ELSE IF ~rec.finished /\ ~rec.stoppedAt THEN "running"
    ELSE "completed"

C10_NodeStatusAsStated ==
    \A n \in Nodes :
        /\ panel.nodes[n] # "absent" => panel.nodes[n] = StatedStatus(panel.execution, n)
        /\ list.nodes[n] # "absent" => list.nodes[n] = StatedStatus(list.execution, n)

\* ---- C11: once ChatManager initialization has completed, the thread list is
\* non-empty and currentChatId is the id of one of its threads; deleting the
\* active thread makes the first remaining thread active, or a freshly created
\* thread when none remains.
C11_ActiveThreadExists ==
    /\ [](chatReady => Len(chats) > 0 /\ FindIndex(chats, currentChatId) # 0)
    /\ [][\A id \in ThreadIds :
            chatReady /\ id = currentChatId /\ deleteChat(id)
              => /\ currentChatId' = chats'[1].id
                 /\ Len(chats) > 1 => chats' = Splice(chats, FindIndex(chats, id))
                 /\ Len(chats) = 1 => chats' = <<NewChat(chatsCreated + 1)>>]_vars

\* the only thread, created by init, was deleted and a fresh one took its place
C11_Witness ==
    /\ chatReady
    /\ chatCalls = 1
    /\ chatsCreated = 2
    /\ Len(chats) = 1
    /\ currentChatId = 2

\* ---- C12: when createNewChat, addMessage, deleteChat or clearCurrentChat
\* has changed the thread list and returns, durable storage decodes to the
\* changed list; and whenever no write is pending, durable storage decodes to
\* the thread list in memory.
C12_PersistedBeforeReturn ==
    /\ [][/\ chatReady
          /\ chats' # chats
          /\ \/ createNewChat
             \/ \E id \in ThreadIds : deleteChat(id)
             \/ \E message \in ChatMessages : addMessage(message)
             \/ clearCurrentChat
          => GetItem(localStorage', "nox-chats", encKey') = ChatsJson(chats')]_vars
    /\ [](chatReady /\ pendingWrites = {}
            => GetItem(localStorage, "nox-chats", encKey) = ChatsJson(chats))

\* ---- C13: the title of every thread is the truncated content of the first
\* user message the thread holds, whatever precedes that message, and it is
\* 'New Chat' as long as the thread holds no user message.
FirstUserMessage(messages) ==
    messages[CHOOSE i \in 1 .. Len(messages) :
                /\ messages[i].role = "user"
                /\ \A j \in 1 .. (i - 1) : messages[j].role # "user"]

C13_TitleFromFirstUserMessage ==
    \A i \in 1 .. Len(chats) :
        chats[i].title =
            IF \E j \in 1 .. Len(chats[i].messages) : chats[i].messages[j].role = "user"
            THEN TitleOf(FirstUserMessage(chats[i].messages).content)
            ELSE "New Chat"


\* ---- C14: the encrypted store round-trips within a session and fails closed
\* across sessions: when a setItem(k, v) call stores its text and the session
\* key is the one the call read, getItem(k) gives v; and a getItem(k) call
\* that finds ciphertext sealed under another key than the session's resolves
\* to null.
C14_RoundTripAndFailClosed ==
    [][/\ \A w \in pendingWrites :
            SetItemWrites(w) /\ w.key = encKey
                => GetItem(localStorage', w.item, encKey') = w.value
       /\ \A item \in StorageKeys :
            /\ getItem(item)
            /\ localStorage[item].kind = "cipher"
            /\ localStorage[item].key # encKey
            => got'.value = NullJson]_vars

\* getItem found a thread list sealed under the key of an earlier session
\* and resolved to null, after a setItem call of this session stored a value
C14_Witness ==
    /\ got = [item |-> "nox-chats", value |-> NullJson]
    /\ encKey = 2
    /\ localStorage["nox-chats"] = CipherText(1, ChatsJson(chats))
    /\ localStorage["nox-neo4j-config"] = CipherText(2, ChatsJson(<<>>))

\* ---- C15: every text the application writes under nox-chats,
\* nox-n8n-config and nox-neo4j-config is ciphertext sealed under the session
\* key of the moment of the write, in every order of setItem, saveConfig and
\* logout.
C15_SensitiveKeysHoldCiphertext ==
    [][\A i \in 1 .. Len(sensitiveKeys) :
          localStorage'[sensitiveKeys[i]] # localStorage[sensitiveKeys[i]]
            => /\ localStorage'[sensitiveKeys[i]].kind = "cipher"
               /\ localStorage'[sensitiveKeys[i]].key = encKey']_vars

\* ---- C16: migrateAllData is idempotent within a session: when a run has
\* returned, every listed key that held the plain JSON of an object before it
\* holds ciphertext that getItem decodes to that object, every other key holds
\* what it held, and a run that follows another one rewrites nothing and
\* returns 0.
C16_MigrationIdempotent ==
    migration.pc = "idle" /\ migration.runs > 0
        => /\ \A k \in StorageKeys :
                IF /\ k \in {sensitiveKeys[i] : i \in 1 .. Len(sensitiveKeys)}
                   /\ migration.before[k].kind = "json"
                   /\ IsJsonObject(migration.before[k].value)
                THEN /\ localStorage[k].kind = "cipher"
                     /\ GetItem(localStorage, k, encKey) = migration.before[k].value
                ELSE localStorage[k] = migration.before[k]
           /\ migration.runs > 1 => migration.returned = 0 /\ localStorage = migration.before

\* ---- C17: isAuthenticated returns true exactly when sessionStorage holds a
\* well-formed session record and the clock does not exceed its expiresAt, and
\* then leaves the record as it is; on a record whose expiresAt the clock
\* exceeds it returns false and removes the record; without a record it
\* returns false; and no step but a login that returns true changes the
\* expiresAt of a record that stays.
C17_SessionValidUntilExpiry ==
    [][/\ isAuthenticated =>
            /\ authLog'.authenticated = "true"
                    <=> session.present /\ session.wellFormed /\ dateNow <= session.expiresAt
            /\ authLog'.authenticated = "true" => session' = session
            /\ session.present /\ session.wellFormed /\ dateNow > session.expiresAt
                    => authLog'.authenticated = "false" /\ session' = NoSession
            /\ ~session.present => authLog'.authenticated = "false" /\ session' = NoSession
       /\ session.present /\ session'.present /\ session'.expiresAt # session.expiresAt
            => \E username \in Usernames, password \in Passwords :
                    login(username, password) /\ authLog'.login = "true"]_vars

\* a check made at the very instant of expiry, a day after the login, found
\* the session valid
C17_Witness ==
    /\ session.present
    /\ session.expiresAt > 0
    /\ dateNow = session.expiresAt
    /\ authLog.authenticated = "true"

\* ---- C18: logout leaves neither the session record nor the encryption key
\* in sessionStorage, and from then on the record is absent, and
\* isAuthenticated returns false, until a login call returns true.
C18_LoggedOutUntilLogin ==
    [][/\ logout => ~session'.present /\ encKey' = 0
       /\ ~session.present /\ session'.present
            => \E username \in Usernames, password \in Passwords :
                    login(username, password) /\ authLog'.login = "true"
       /\ ~session.present /\ isAuthenticated => authLog'.authenticated = "false"]_vars

\* after a logout a check failed, and no login has succeeded since
C18_Witness ==
    /\ ~session.present
    /\ encKey = 0
    /\ authLog.authenticated = "false"
    /\ authLog.login = "false"

\* ---- C19: every login call that returns false returns it at least 500 ms
\* after it was called, for a name without credentials and for a wrong
\* password alike: a call that waits ends in no other way than by that
\* return, and the step on which it returns leaves the session record as it
\* is.
C19_FailedLoginWaits ==
    /\ [](authLog.login = "false" => authLog.waited >= LoginDelay)
    /\ [][/\ \A l \in logins :
                l \notin logins' => \/ l.phase = "hash" /\ HashResolves(l)
                                    \/ l.phase = "delay" /\ authLog'.login = "false"
          /\ /\ authLog'.login = "false"
             /\ <<authLog'.login, authLog'.username, authLog'.waited>>
                    # <<authLog.login, authLog.username, authLog.waited>>
             => session' = session]_vars

\* a login of admin with a wrong password returned false, later than a login
\* of an unknown name would have
C19_Witness ==
    /\ authLog.login = "false"
    /\ authLog.username = "admin"
    /\ authLog.waited > LoginDelay

\* ---- C20: for every message body, the text a stream accumulates is at
\* every step a prefix of the text with placeholders, and when the stream has
\* run to its end without being cancelled the text displayed, placeholders
\* substituted back, is the content of the message.
C20_StreamedTextIsContent ==
    \A n \in 1 .. Len(streams) :
        /\ StartsAt(streams[n].text, 1, streams[n].currentText)
        /\ streams[n].pc = "done" /\ ~streams[n].cancelled
                => streams[n].displayText = streams[n].content

\* ---- C21: every displayMessageWithStreaming call cancels the stream that is
\* in flight, so that at most one stream that is not cancelled is in flight
\* whatever the calls and their order; and a cancelled stream whose delay is
\* over appends nothing more and ends.
C21_OneLiveStream ==
    /\ [](Cardinality({n \in 1 .. Len(streams) :
                streams[n].pc = "waiting" /\ ~streams[n].cancelled}) <= 1)
    /\ [][\A n \in 1 .. Len(streams) :
            streams[n].cancelled /\ DelayFires(n)
                => /\ streams'[n].pc = "done"
                   /\ streams'[n].currentText = streams[n].currentText]_vars

\* ---- C22: the delay streamText waits after a word is the option of the
\* speed selected when the word is appended, 80 ms for slow, 40 ms for
\* normal, 15 ms for fast, and under instant it does not wait at all.
C22_DelayOfSelectedSpeed ==
    [][\A n \in 1 .. Len(streams') :
          /\ streams'[n].pc = "waiting"
          /\ n \in 1 .. Len(streams) => streams'[n].i # streams[n].i
          => /\ currentStreamingSpeed # "instant"
             /\ streams'[n].delay = streamingSpeedOptions[currentStreamingSpeed]]_vars

\* ---- C23: after any sequence of toggleGraphAutoRefresh, startGraphPolling,
\* stopGraphPolling and closeGraphView, graphAutoRefreshEnabled is true exactly
\* when a graph polling interval is live, at most one is live, none is live
\* after closeGraphView, and the graph handle and the executions-refresh
\* handle do not move together.
C23_FlagTracksInterval ==
    /\ [](/\ graphAutoRefreshEnabled <=> liveGraphIntervals # {}
          /\ Cardinality(liveGraphIntervals) <= 1)
    /\ [][/\ closeGraphView => liveGraphIntervals' = {}
          /\ graphPollingInterval' # graphPollingInterval
                => /\ executionsRefreshInterval' = executionsRefreshInterval
                   /\ liveRefreshIntervals' = liveRefreshIntervals
          /\ executionsRefreshInterval' # executionsRefreshInterval
                => /\ graphPollingInterval' = graphPollingInterval
                   /\ liveGraphIntervals' = liveGraphIntervals]_vars

\* ---- C23 as amended: after any sequence of the four at most one graph
\* polling interval is live, the one the handle holds; toggleGraphAutoRefresh
\* and closeGraphView, taken when graphAutoRefreshEnabled is true exactly when
\* an interval is live, leave it so, and closeGraphView then leaves none live
\* (startGraphPolling and stopGraphPolling on their own set and clear the
\* interval and leave the flag alone); the graph handle and the
\* executions-refresh handle do not move together.
C23_ButtonsKeepFlagTracking ==
    /\ [](/\ Cardinality(liveGraphIntervals) <= 1
          /\ liveGraphIntervals \subseteq {graphPollingInterval})
    /\ [][/\ /\ toggleGraphAutoRefresh \/ closeGraphView
             /\ graphAutoRefreshEnabled <=> liveGraphIntervals # {}
             => (graphAutoRefreshEnabled' <=> liveGraphIntervals' # {})
          /\ /\ closeGraphView
             /\ graphAutoRefreshEnabled <=> liveGraphIntervals # {}
             => liveGraphIntervals' = {}
          /\ startGraphPolling \/ stopGraphPolling
                => graphAutoRefreshEnabled' = graphAutoRefreshEnabled
          /\ graphPollingInterval' # graphPollingInterval
                => /\ executionsRefreshInterval' = executionsRefreshInterval
                   /\ liveRefreshIntervals' = liveRefreshIntervals
          /\ executionsRefreshInterval' # executionsRefreshInterval
                => /\ graphPollingInterval' = graphPollingInterval
                   /\ liveGraphIntervals' = liveGraphIntervals]_vars

\* the window was closed while auto-refresh ran on its second interval, the
\* first having been stopped, and an executions-refresh interval is live
C23_Witness ==
    /\ ~graphAutoRefreshEnabled
    /\ graphIntervalsCreated = 2
    /\ liveGraphIntervals = {}
    /\ liveRefreshIntervals # {}

\* ---- C27: at most one executions-refresh interval is live at any time,
\* however handleWorkflowChange calls interleave, a second change arriving
\* while the first still awaits loadExecutions included; and none is live
\* while no workflow is selected.
C27_OneRefreshInterval ==
    /\ Cardinality(liveRefreshIntervals) <= 1
    /\ selectedWorkflowId = 0 => liveRefreshIntervals = {}

C25_GraceTimerStopsOwnExecution ==
    [][\A g \in graceTimers :
            GraceTimerFires(g) /\ currentExecutionId # 0
                => currentExecutionId \in monitorLog.finishedSeen]_vars

\* ---- C26: the assistant message of a send is stored in the thread that
\* received the user message of that send, whatever resetChat does while the
\* send is in flight: in every thread each assistant message directly follows
\* a user message.
C26_ReplyJoinsItsUserMessage ==
    \A c \in 1 .. Len(chats) :
        \A k \in 1 .. Len(chats[c].messages) :
            chats[c].messages[k].role = "assistant"
                => /\ k > 1
                   /\ chats[c].messages[k - 1].role = "user"

\* ---- C28: every send that passed the guards releases isProcessing in the
\* end, provided the webhook request resolves or rejects: on a reply, on the
\* early return of an empty reply and on an error alike the call runs to its
\* end and leaves isProcessing false.
C28_SendReleasesProcessing ==
    \A i \in Slots :
        send[i].pc \notin {"unused", "done"} ~> (send[i].pc = "done" /\ ~isProcessing)

\* a send ended on the early return of an empty reply, its stream having run
\* to the end, and isProcessing is released
C28_Witness ==
    \E i \in Slots : /\ send[i].pc = "done"
                     /\ send[i].path = "empty"
                     /\ streams # <<>>
                     /\ streams[Len(streams)].pc = "done"
                     /\ ~isProcessing

\* ---- C29: a session that starts with a fresh key leaves the stored thread
\* list as it is: while nox-chats holds what the key of the session cannot
\* open and the page has made no call to the chat store, the initialization
\* of ChatManager does not write over it.
C29_UndecryptableThreadsKept ==
    [][/\ localStorage["nox-chats"].kind = "cipher"
       /\ localStorage["nox-chats"].key # encKey
       /\ chatCalls = 0
       => localStorage'["nox-chats"] = localStorage["nox-chats"]]_vars

\* the place of a query in a list that holds it
Position(qs, query) == CHOOSE k \in 1 .. Len(qs) : qs[k] = query

\* ---- C30: from the empty list on, after any saveRecentQuery calls the list
\* holds no query twice, at most 20 queries and no empty or blank one; a
\* saved query is first and the others keep their order, so that the list is
\* ordered most recently saved first; and saving a query the list holds
\* moves it to the front and leaves the length as it is.
C30_RecentQueriesList ==
    /\ [](/\ Cardinality(Range(recentQueries)) = Len(recentQueries)
          /\ Len(recentQueries) <= 20
          /\ \A k \in 1 .. Len(recentQueries) : Trim(recentQueries[k]) # "")
    /\ [][querySaves' # querySaves
            => /\ recentQueries' # <<>>
               /\ Head(recentQueries') = querySaves'.last
               /\ \A a, b \in Range(Tail(recentQueries')) :
                    /\ {a, b} \subseteq Range(recentQueries)
                    /\ Position(recentQueries', a) < Position(recentQueries', b)
                            <=> Position(recentQueries, a) < Position(recentQueries, b)
               /\ querySaves'.last \in Range(recentQueries)
                    => Len(recentQueries') = Len(recentQueries)]_vars
    /\ [][querySaves' = querySaves => recentQueries' = recentQueries]_vars

\* the list is full, its oldest query has been dropped, and a query saved
\* again is at the front
C30_Witness ==
    /\ Len(recentQueries) = 20
    /\ querySaves.fresh = MaxQueries
    /\ querySaves.again > 0
    /\ QueryText(1) \notin Range(recentQueries)
    /\ Head(recentQueries) # QueryText(MaxQueries)

====
